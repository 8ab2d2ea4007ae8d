---------------------------------- MODULE Log ----------------------------------
(***************************************************************************)
(* What the queue is to its users: a log.  Entries are appended in order,  *)
(* leave from the front when they expire, and are delivered to each reader *)
(* in order and at most once, at the reader's own pace and independently   *)
(* of the others.  A reader may miss an entry, as one that expires before  *)
(* it is read is missed.                                                   *)
(***************************************************************************)
EXTENDS Sequences, Integers

CONSTANTS
  Entries,     \* all there may ever be
  Order,       \* the order they are appended in, a set of pairs
  Readers

VARIABLES
  appended,    \* entries appended so far
  kept,        \* those that have not expired
  delivered    \* what each reader was given, in sequence

logVars == <<appended, kept, delivered>>

Before(r, s) == <<r, s>> \in Order

LogInit ==
  /\ appended = {}
  /\ kept = {}
  /\ delivered = [r \in Readers |-> <<>>]

AppendEntry ==
  /\ \E e \in Entries :
       /\ \A a \in appended : Before(a, e)
       /\ appended' = appended \cup {e}
       /\ kept' = kept \cup {e}
  /\ UNCHANGED delivered

(* Expiration takes some of the oldest; closing takes all. *)
Expire ==
  /\ kept' \subseteq kept
  /\ \A k \in kept' : \A g \in kept \ kept' : Before(g, k)
  /\ UNCHANGED <<appended, delivered>>

Deliver(r) ==
  /\ \E e \in appended :
       /\ \A i \in DOMAIN delivered[r] : Before(delivered[r][i], e)
       /\ delivered' = [delivered EXCEPT ![r] = Append(@, e)]
  /\ UNCHANGED <<appended, kept>>

LogNext == AppendEntry \/ Expire \/ \E r \in Readers : Deliver(r)

LogSpec == LogInit /\ [][LogNext]_logVars
===============================================================================
