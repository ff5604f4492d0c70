----------------------------- MODULE MCDispatch -----------------------------
(* Small instances of Dispatch for TLC.                                    *)
EXTENDS Dispatch, TLC

CONSTANTS a, b, x, t1, t2, d1, d2

It(t, disp) == [tuple |-> t, disp |-> disp, ready |-> TRUE]

\* Tickets are ranked in one order, a before b before x.
Order == a :> 1 @@ b :> 2 @@ x :> 3

Plan(disabled, refused, reserved) ==
  [disabled |-> disabled, refused |-> refused, reserved |-> reserved,
   planned |-> Ticket, rank |-> [t \in Ticket |-> Order[t]]]

Unhindered == Plan({}, {}, {})

-----------------------------------------------------------------------------
(* dispatch_streams: one inventory, two streams, changing policy.          *)

StreamsContent == d1 :> (a :> It(t1, "ELIGIBLE") @@ b :> It(t1, "ELIGIBLE"))
StreamsPolicy == {Unhindered, Plan({a}, {}, {}), Plan({}, {}, {a})}

(* dispatch_round: the second inventory moves a to its next candidate and  *)
(* parks b; one stream.                                                    *)

RoundContent ==
  d1 :> (a :> It(t1, "ELIGIBLE") @@ b :> It(t1, "ELIGIBLE"))
    @@ d2 :> (a :> It(t2, "ELIGIBLE") @@ b :> It(t1, "PAUSED_INPUT"))

RoundPolicy == {Unhindered, Plan({a}, {}, {}), Plan({}, {b}, {})}

(* dispatch_live: one stream, two tickets, capacity 0 or 1.                *)

LiveContent == StreamsContent
LivePolicy == {Unhindered, Plan({a}, {}, {})}

(* one_writer_per_path: a and b share a path, x does not.                  *)

PathContent ==
  d1 :> (a :> It(t1, "ELIGIBLE") @@ b :> It(t1, "ELIGIBLE") @@ x :> It(t1, "ELIGIBLE"))
PathOverlaps == {{a, b}}
PathPolicy == {Unhindered}

(* proof_is_accepted: one ticket, two candidates.                          *)

ProofContent == d1 :> (a :> It(t1, "ELIGIBLE")) @@ d2 :> (a :> It(t2, "ELIGIBLE"))

=============================================================================
