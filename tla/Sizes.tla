--------------------------------- MODULE Sizes ---------------------------------
(***************************************************************************)
(* The estimate of a payload's size (MemoryTracker.EstimateQueueDataSize,  *)
(* queue/memory.go): a walk over the payload by reflection, with a set of  *)
(* addresses already visited, limits on depth and on that set, a cache of  *)
(* the sizes of types whose values all have one size, and saturating sums. *)
(*                                                                         *)
(* A value is a record: its kind and type, the address it refers to (0 for *)
(* none) and its parts.  Heap says what is at an address pointers refer    *)
(* to; the elements of a slice are its parts.  Around the walk: the batch  *)
(* that is measured and held against the memory limit.                     *)
(***************************************************************************)
EXTENDS Integers, Sequences, FiniteSets, FiniteSetsExt, Functions, SequencesExt

CONSTANTS
  Payloads,    \* what the application enqueues
  Usages,      \* memory in use when it does
  Heap,        \* what a pointer to each address points to
  TypeSize,    \* reflect.Type.Size of each type
  FlatTypes,   \* slice types whose elements are numbers
  MaxInt,      \* largest int64
  Huge,        \* 1 << 40, said of what cannot be measured
  MaxDepth,    \* 1000 in the code
  MaxVisited,  \* 10000 in the code
  MaxMemory,   \* QueueConfig.MaxMemory
  Overhead     \* what a QueueData and its QueueEvent cost themselves

ASSUME SizesAssumption ==
  /\ MaxInt \in Nat /\ Huge \in 1 .. MaxInt /\ MaxMemory \in 1 .. Huge
  /\ MaxDepth \in Nat /\ MaxVisited \in Nat /\ Overhead \in Nat
  /\ Usages \subseteq 0 .. MaxMemory

VARIABLES
  cache,       \* sizeCache
  outcome,     \* what the last TryEnqueueBatch returned
  fits         \* history: did that batch fit, but for what estimates leave out?

sizeVars == <<cache, outcome, fits>>

NoMap     == {-1}        \* the visited map before it is made
NotFixed  == -1          \* cached for types whose sizes differ
Refers(v) == v.kind \in {"ptr", "slice", "map"} /\ v.at # 0

(* Two's complement addition, for the mutant. *)
Wrap(n) == IF n > MaxInt THEN n - 2 * (MaxInt + 1) ELSE n

safeAdd(a, b) ==
  IF b <= 0 THEN a
  ELSE IF a > MaxInt - b THEN MaxInt
  ELSE a + b

(* Mutant: the elements of a slice do not make its size vary. *)
IsFixedKindSlice(v) == v.kind \notin {"string", "map", "ptr", "iface"}

(* Kinds whose own size is the same for all values of the type. *)
IsFixedKind(v) == v.kind \notin {"string", "slice", "map", "ptr", "iface"}

(* What a value costs without what it holds or refers to. *)
OwnSize(v) ==
  CASE v.kind = "string"  -> v.len
    [] v.kind = "map"     -> Huge
    [] v.kind \in {"struct", "array"} -> 0
    [] v.type \in FlatTypes -> TypeSize[v.type] + v.len
    [] OTHER              -> TypeSize[v.type]

(* What the walk goes on to. *)
Inside(v) == IF v.kind = "ptr" THEN (IF v.at = 0 THEN <<>> ELSE <<Heap[v.at]>>)
             ELSE v.parts

(* A visited map made below is not seen above; one that was there is shared. *)
Outer(seen, inner) == IF seen = NoMap THEN NoMap ELSE inner

AlreadySeen(v, seen) == Refers(v) /\ seen # NoMap /\ v.at \in seen

Visit(v, seen) ==
  IF ~Refers(v) THEN seen
  ELSE (IF seen = NoMap THEN {} ELSE seen) \cup {v.at}

Cached(type, known) == type \in DOMAIN known /\ known[type] # NotFixed

Remember(type, known, had, fixed, size) ==
  IF had THEN known
  ELSE [t \in DOMAIN known \cup {type} |->
          IF t = type THEN (IF fixed THEN size ELSE NotFixed) ELSE known[t]]

RECURSIVE Walk(_, _, _, _, _), WalkParts(_, _, _, _, _, _, _)

(* estimateValueSize.  byValue: a copy, not an addressable field, element or *)
(* target.                                                                   *)
Walk(v, seen, depth, byValue, known) ==
  LET stop(n) == [size |-> n, fixed |-> FALSE, seen |-> seen, cache |-> known]
      now     == Visit(v, seen)
      had     == v.type \in DOMAIN known
      r       == WalkParts(Inside(v), OwnSize(v), IsFixedKind(v), now, depth + 1,
                           v.kind = "iface", known)
  IN
  IF depth > MaxDepth THEN stop(0)
  ELSE IF seen # NoMap /\ Cardinality(seen) > MaxVisited THEN stop(Huge)
  ELSE IF byValue /\ v.kind \in {"struct", "array"} /\ TypeSize[v.type] > MaxMemory THEN stop(Huge)
  ELSE IF AlreadySeen(v, seen) THEN stop(0)
  ELSE IF Cached(v.type, known)
    THEN [size |-> known[v.type], fixed |-> TRUE, seen |-> now, cache |-> known]
  ELSE [r EXCEPT !.cache = Remember(v.type, @, had, r.fixed, r.size)]

WalkParts(parts, size, fixed, seen, depth, byValue, known) ==
  IF parts = <<>>
    THEN [size |-> size, fixed |-> fixed, seen |-> seen, cache |-> known]
    ELSE LET r == Walk(Head(parts), seen, depth, byValue, known)
         IN WalkParts(Tail(parts), safeAdd(size, r.size), fixed /\ r.fixed,
                      Outer(seen, r.seen), depth, byValue, r.cache)

(* estimatePayloadSize: strings and numbers are measured at once, a payload  *)
(* that tells its Size is believed.                                          *)
PayloadSize(p, known) ==
  LET r == Walk(p, NoMap, 0, TRUE, known) IN
  CASE p.kind \in {"string", "num"} -> [size |-> OwnSize(p), cache |-> known]
    [] p.kind = "sizeable"          -> [size |-> IF p.len < 0 THEN 0 ELSE p.len, cache |-> known]
    [] OTHER                        -> [size |-> r.size, cache |-> r.cache]

EstimateQueueDataSize(p, known) ==
  LET r == PayloadSize(p, known)
  IN [r EXCEPT !.size = safeAdd(Overhead, @)]

-----------------------------------------------------------------------------
(* What a payload occupies, by definition and without regard to the walk: the *)
(* words of its type, padding included, the bytes of its strings, what its     *)
(* interfaces hold and, once each, whatever is referred to, with a reference   *)
(* to it.                                                                      *)

RECURSIVE Lying(_), References(_), Reached(_), Nesting(_, _)

(* v and its parts, the targets of references excepted. *)
Lying(v) ==
  <<v>> \o IF Refers(v) THEN <<>> ELSE FlattenSeq([i \in DOMAIN v.parts |-> Lying(v.parts[i])])

(* The references that lie in v itself. *)
References(v) ==
  IF Refers(v) THEN {v} ELSE UNION {References(v.parts[i]) : i \in DOMAIN v.parts}

Reached(R) ==
  LET S == R \cup UNION {UNION {References(Inside(r)[i]) : i \in DOMAIN Inside(r)} : r \in R}
  IN IF S = R THEN R ELSE Reached(S)

Sigma(f(_), s) == FoldFunction(+, 0, [i \in DOMAIN s |-> f(s[i])])

(* f over all that belongs to v, each target of a reference once. *)
Throughout(f(_), v) ==
  LET all(w) == Sigma(f, Lying(w)) IN
  all(v) + MapThenSumSet(LAMBDA r : Sigma(all, Inside(r)), Reached(References(v)))

(* The gaps between the fields of a struct. *)
Padding(v) == TypeSize[v.type] - Sigma(LAMBDA w : TypeSize[w.type], v.parts)

Bytes(v) ==
  CASE Refers(v)                     -> 0
    [] v.kind = "string"             -> TypeSize[v.type] + v.len
    [] v.kind \in {"struct", "array"} -> Padding(v)
    [] OTHER                         -> TypeSize[v.type]

(* A reference with the numbers in a slice of numbers. *)
RefBytes(r) == TypeSize[r.type] + (IF r.type \in FlatTypes THEN r.len ELSE 0)

Occupies(v) == Throughout(Bytes, v) + MapThenSumSet(RefBytes, Reached(References(v)))

(* What of it the estimate leaves out: a string's header, padding. *)
LeftOut(v) ==
  CASE v.kind = "string"             -> TypeSize[v.type]
    [] v.kind \in {"struct", "array"} -> Padding(v)
    [] OTHER                         -> 0

(* Is the walk cut off, v being at depth d? *)
Nesting(v, d) ==
  \/ d > MaxDepth
  \/ \E i \in DOMAIN Inside(v) : Nesting(Inside(v)[i], d + 1)

TooDeep(v) == Nesting(v, 0)

(* Two slices that begin at the same address and differ in length. *)
Overlaps(v) ==
  \E r, s \in Reached(References(v)) : r # s /\ r.at = s.at

(* The least that p occupies, as far as the walk undertakes to find it: below *)
(* MaxDepth it looks at nothing, and of two slices that begin at one address  *)
(* it sees the first.                                                         *)
Occupied == [p \in Payloads |->
  CASE p.kind = "sizeable"        -> IF p.len < 0 THEN 0 ELSE p.len
    [] TooDeep(p) \/ Overlaps(p) -> 0
    [] OTHER                      -> Occupies(p)]

(* How much of it estimates leave out. *)
Unmeasured == [p \in Payloads |->
  IF p.kind = "sizeable" \/ TooDeep(p) \/ Overlaps(p) THEN 0 ELSE Throughout(LeftOut, p)]

-----------------------------------------------------------------------------
(* TryEnqueueBatch, as far as memory decides it *)

RECURSIVE Sum(_, _, _)

(* Mutant: the sum is not guarded. *)
TotalUnguarded(total, size) == [total |-> Wrap(total + size), overflow |-> FALSE]

Total(total, size) ==
  IF MaxInt - total < size THEN [total |-> total, overflow |-> TRUE]
  ELSE [total |-> total + size, overflow |-> FALSE]

(* The loop over the batch; an overflow ends it. *)
Sum(batch, total, known) ==
  IF batch = <<>> THEN [total |-> total, overflow |-> FALSE, cache |-> known]
  ELSE LET e == EstimateQueueDataSize(Head(batch), known)
           t == Total(total, e.size)
       IN IF t.overflow THEN [total |-> total, overflow |-> TRUE, cache |-> e.cache]
          ELSE Sum(Tail(batch), t.total, e.cache)

TryEnqueueBatch(batch, usage) ==
  LET s == Sum(batch, 0, cache) IN
  /\ cache' = s.cache
  /\ outcome' = IF s.overflow THEN "overflow"
                ELSE IF s.total > MaxMemory - usage THEN "limit"
                ELSE "added"
  /\ fits' = (usage + Sigma(LAMBDA p : Overhead + Occupied[p] - Unmeasured[p], batch)
                <= MaxMemory)

SizesInit ==
  /\ cache = [t \in {} |-> 0]
  /\ outcome = "none"
  /\ fits = TRUE

Batches == UNION {[1 .. n -> Payloads] : n \in 1 .. 2}

SizesNext == \E batch \in Batches, usage \in Usages : TryEnqueueBatch(batch, usage)

-----------------------------------------------------------------------------
(* Properties *)

SizesTypeOK ==
  /\ DOMAIN cache \subseteq DOMAIN TypeSize
  /\ \A t \in DOMAIN cache : cache[t] \in {NotFixed} \cup 0 .. MaxInt
  /\ outcome \in {"none", "added", "limit", "overflow"}
  /\ fits \in BOOLEAN

(* What was measured before changes no estimate: whatever sizes the cache has *)
(* taken from other payloads, a payload is estimated as by a new tracker      *)
(* (the hit at memory.go:208 against the walk it stands for, and what is      *)
(* stored at memory.go:284).                                                  *)
CacheTransparent ==
  DOMAIN cache # {} => \A p \in Payloads :
    ~TooDeep(p) => PayloadSize(p, cache).size = PayloadSize(p, [t \in {} |-> 0]).size

(* A batch that is admitted fits beside what was in use, but for what the     *)
(* estimate leaves out: everything that can be reached from its payloads, each *)
(* object once, with the words of its type, passes the limit by no more than   *)
(* the headers of their strings (memory.go:118, :223) and the padding of their *)
(* structs (memory.go:253).  Cycles, shared pointers, sums that would overflow *)
(* and negative sizes included (queue.go:334, :340; memory.go:66, :195).       *)
AdmittedFits == outcome = "added" => fits
===============================================================================
