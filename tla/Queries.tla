-------------------------------- MODULE Queries --------------------------------
(***************************************************************************)
(* What a consumer or a group can be asked: how many items it has not read *)
(* (GetUnreadCount, under q.mutex.RLock) and whether there are any         *)
(* (HasMoreData).  Both look; they change nothing.                         *)
(***************************************************************************)
EXTENDS Cursor

(* GetTotalItems counts what is stored: ChunkedList!CountersAreExact. *)
TotalItems == Cardinality(LiveSlots)

(* Get returns what is not expired, at or after index i. *)
ItemsOf(e, i) == Cardinality({j \in i .. size[e] - 1 : head[e] <= j})

(* IterateFrom the start of chunk d on: Next follows NextElement. *)
ItemsInChain[d \in ChunkId \cup {Nil}] ==
  IF d = Nil THEN 0 ELSE ItemsOf(d, 0) + ItemsInChain[next[d]]

(* Mutant: later chunks are counted from the index of the first. *)
CountItemsFromShifted(e, i) ==
  LET from[d \in ChunkId \cup {Nil}] ==
        IF d = Nil THEN 0 ELSE ItemsOf(d, i) + from[next[d]]
  IN from[e]

(* IterateFrom to the end, counting. *)
CountItemsFrom(e, i) == ItemsOf(e, i) + ItemsInChain[next[e]]

GetUnreadCount(c) ==
  IF IsClosed(c) THEN 0
  ELSE IF elem[c] = Nil THEN TotalItems
  ELSE CountItemsFrom(elem[c], idx[c])

HasMoreData(c) ==
  /\ ~IsClosed(c)
  /\ IF elem[c] = Nil THEN TotalItems > 0
     ELSE idx[c] < size[elem[c]] \/ next[elem[c]] # Nil

(* A cursor stands where the list can be followed: not in a chunk that was   *)
(* removed before its position was stored, and not after Close.              *)
InList(c) == c \in registered /\ ~IsClosed(c) /\ elem[c] \in linked \cup {Nil}

(* Between two writers the answers are right: the count is the number of     *)
(* items in the list that are not behind the cursor's position, and          *)
(* HasMoreData tells whether there is one.  The index may lie before the     *)
(* head, the chunks that follow may have lost items, and the chain of        *)
(* NextElement is walked in place of the list (consumer.go:400-410, :435;    *)
(* chunked_list.go:231-251; consumer_group.go:225-235, :266).                *)
QueriesAreExact ==
  phase = "free" => \A c \in Cursors : InList(c) =>
    LET unread == {s \in LiveSlots : ~Behind(c, s)} IN
    /\ GetUnreadCount(c) = Cardinality(unread)
    /\ HasMoreData(c) <=> unread # {}
===============================================================================
