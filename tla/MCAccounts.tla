------------------------------ MODULE MCAccounts ------------------------------
(* The tracker's estimates and the metrics, for TLC.  They share no state: a *)
(* behaviour moves one of them, the other stays as it began.                 *)
EXTENDS Sizes, Metrics

SomeTypes ==
  [num |-> 2, bool |-> 1, string |-> 2, any |-> 2, map |-> 1, own |-> 1,
   pair |-> 4, ppair |-> 1, node |-> 3, pnode |-> 1, two |-> 2, ptwo |-> 1,
   pairs |-> 3, strings |-> 3, nums |-> 3, views |-> 6, pviews |-> 1, box |-> 2,
   line |-> 50, refs |-> 4, tagged |-> 4]

Value(kind, type, at, len, parts) ==
  [kind |-> kind, type |-> type, at |-> at, len |-> len, parts |-> parts]

Num          == Value("num", "num", 0, 0, <<>>)
Str(n)       == Value("string", "string", 0, n, <<>>)
Ptr(type, a) == Value("ptr", type, a, 0, <<>>)
Struct(t, p) == Value("struct", t, 0, 0, p)
Slice(t, a, p) == Value("slice", t, a, Len(p), p)
Iface(v)     == Value("iface", "any", 0, 0, <<v>>)
Own(n)       == Value("sizeable", "own", 0, n, <<>>)

Pair         == Struct("pair", <<Num, Num>>)
Node(a)      == Struct("node", <<Num, Ptr("pnode", a)>>)
Two(a, b)    == Struct("two", <<Ptr("ppair", a), Ptr("ppair", b)>>)
Views        == Struct("views", <<Slice("pairs", 8, <<Pair, Pair>>), Slice("pairs", 8, <<Pair>>)>>)
Line         == Value("array", "line", 0, 0, [i \in 1 .. 25 |-> Num])

(* 2 points to itself, 3 -> 4 -> 5 is a chain.  A tagged struct is padded. *)
SomeHeap == <<Pair, Node(2), Node(4), Node(5), Node(0), Two(1, 1), Views>>

SomePayloads ==
  { Ptr("pnode", 2), Ptr("pnode", 3), Ptr("ptwo", 6), Ptr("pviews", 7),
    Slice("pairs", 8, <<Pair, Pair>>),
    Slice("strings", 9, <<Str(1), Str(5)>>), Slice("pairs", 10, <<Pair>>),
    Value("map", "map", 12, 0, <<>>),
    Struct("box", <<Iface(Line)>>),
    Value("array", "refs", 0, 0, <<Iface(Ptr("ppair", 1)), Iface(Value("slice", "nums", 11, 6, <<>>))>>),
    Struct("tagged", <<Value("num", "bool", 0, 0, <<>>), Num>>), Str(8),
    Own(126), Own(-3) }

(* A slice of numbers has 2 for each in its len; see OwnSize. *)
SomeFlat == {"nums"}

AccountsInit == SizesInit /\ MetricsInit

AccountsNext ==
  \/ MetricsInit /\ SizesNext /\ UNCHANGED metricsVars
  \/ SizesInit /\ MetricsNext /\ UNCHANGED sizeVars

AccountsSpec == AccountsInit /\ [][AccountsNext]_<<sizeVars, metricsVars>>

(* Types of the tracker's and the metrics' variables (memory.go:25-29,        *)
(* metrics.go:11-31, consumer.go:35).                                         *)
TypeOK == SizesTypeOK /\ MetricsTypeOK
===============================================================================
