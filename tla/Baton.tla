------------------------------- MODULE Baton -------------------------------
(***************************************************************************)
(* What the turn baton promises, with no clock, no timestamps and no JSON. *)
(* Each review's baton is with the reviewer or with the agent side, and    *)
(* a session may hold a live lease on the review.  Only one session at a   *)
(* time does, a lapsed lease changes hands only while the baton is still   *)
(* on the agent side, and sending the document again starts from no lease. *)
(***************************************************************************)
EXTENDS Naturals

CONSTANTS Reviews,   \* the review documents
          Owners,    \* the named agent sessions
          NoOwner    \* the empty owner of a lease nobody signed

VARIABLES baton,     \* baton[r]: whose turn it is
          last,      \* last[r]: the session the lease was last signed by
          live       \* live[r]: the sessions whose lease has not lapsed

Init == /\ baton = [r \in Reviews |-> "reviewer"]
        /\ last = [r \in Reviews |-> NoOwner]
        /\ live = [r \in Reviews |-> {}]

(* The reviewer sends the document: nobody holds it until a session claims. *)
Send(r) == /\ baton[r] = "reviewer"
           /\ baton' = [baton EXCEPT ![r] = "agent"]
           /\ last' = [last EXCEPT ![r] = NoOwner]
           /\ live' = [live EXCEPT ![r] = {}]

(* The reviewer takes the document back; the session at work is not told. *)
Recall(r) == /\ baton' = [baton EXCEPT ![r] = "reviewer"]
             /\ UNCHANGED <<last, live>>

(* A session hands the document back, which ends every lease on it. *)
Return(r) == /\ baton' = [baton EXCEPT ![r] = "reviewer"]
             /\ \E o \in Owners \cup {NoOwner} : last' = [last EXCEPT ![r] = o]
             /\ live' = [live EXCEPT ![r] = {}]

(* A session signs the lease: nobody else's lease is live, and after a     *)
(* recall only the session that signed last may sign again.                *)
Sign(r, o) == /\ live[r] \subseteq {o}
              /\ baton[r] = "agent" \/ last[r] \in {NoOwner, o}
              /\ last' = [last EXCEPT ![r] = o]
              /\ live' = [live EXCEPT ![r] = {o} \cap Owners]
              /\ UNCHANGED baton

(* Time passes: any leases may lapse, none comes back. *)
Lapse == /\ live' \in [Reviews -> SUBSET Owners]
         /\ \A r \in Reviews : live'[r] \subseteq live[r]
         /\ UNCHANGED <<baton, last>>

Next == \/ \E r \in Reviews : \/ Send(r) \/ Recall(r) \/ Return(r)
                              \/ \E o \in Owners \cup {NoOwner} : Sign(r, o)
        \/ Lapse

vars == <<baton, last, live>>

Spec == Init /\ [][Next]_vars
=============================================================================
