--------------------------- MODULE EventChannel ---------------------------
(***************************************************************************)
(* What the DSMgr event queue promises to the rest of the daemon, with no  *)
(* list, lock, condition variable or thread in it: the events the IARM     *)
(* callback accepts are handed to _ProcessEvent one at a time, in the order *)
(* they were accepted, none twice and none skipped; at most QueueMax of     *)
(* them are outstanding; once the channel is closed nothing more is         *)
(* accepted or handed over.  The power event queue (DsMgrPower) keeps the   *)
(* same promise, with no limit of its own.                                  *)
(***************************************************************************)
EXTENDS Naturals, Sequences

CONSTANTS QueueMax,    \* DSMGR_EVENT_QUEUE_MAX
          MaxEvents    \* bound on the number of events that arrive

VARIABLES accepted,    \* the events accepted so far, in the order of acceptance
          handed,      \* the events handed to _ProcessEvent so far, in order
          open         \* TRUE until stopEventWorker closes the channel

chanVars == <<accepted, handed, open>>

ChanInit ==
    /\ accepted = <<>>
    /\ handed = <<>>
    /\ open = TRUE

(* An event is accepted only while fewer than QueueMax are outstanding. *)
Accept ==
    /\ open
    /\ Len(accepted) - Len(handed) < QueueMax
    /\ \E e \in 1..MaxEvents : accepted' = Append(accepted, e)
    /\ UNCHANGED <<handed, open>>

(* The next event to be handed over is always the oldest one outstanding. *)
HandOver ==
    /\ open
    /\ Len(handed) < Len(accepted)
    /\ handed' = Append(handed, accepted[Len(handed) + 1])
    /\ UNCHANGED <<accepted, open>>

Close ==
    /\ open
    /\ open' = FALSE
    /\ UNCHANGED <<accepted, handed>>

ChanNext == Accept \/ HandOver \/ Close

ChanSpec == ChanInit /\ [][ChanNext]_chanVars
=============================================================================
