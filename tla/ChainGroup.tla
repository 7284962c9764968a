----------------------------- MODULE ChainGroup -----------------------------
(***************************************************************************)
(* Middleware groups as chain/chain.go keeps them: a Group holds a Go      *)
(* slice, that is a reference to an array and a length, and append writes  *)
(* into the array in place as long as its capacity lasts.  A Middleware    *)
(* taken from a group is a closure over the slice and reads the array only *)
(* when it is applied.                                                     *)
(*                                                                         *)
(* NewGroup(a, b) makes an array; NewGroup(s...) keeps the slice s of the  *)
(* caller, array and all.  The program here has one such slice, with one   *)
(* element, and may make any number of groups of it.                       *)
(***************************************************************************)
EXTENDS Naturals, Sequences

CONSTANTS
    Groups,       \* the *Group values a program makes
    Chains,       \* the Middleware values it takes from groups
    Middlewares,  \* the middlewares
    MaxArgs,      \* bound: arguments of one call
    MaxLen,       \* bound: length of a group
    MaxSpare,     \* bound: spare capacity append allocates
    CallerSpare   \* unused capacity of the slice the program keeps

ASSUME ChainGroupAssumption ==
    /\ {MaxArgs, MaxLen, MaxSpare, CallerSpare} \subseteq Nat /\ MaxArgs >= 1
    /\ Groups \cap Chains = {}
    /\ "nil" \notin Middlewares

VARIABLES
    heap,    \* the arrays, in the order of their allocation
    slice,   \* the slice of each group and chain
    made     \* the groups and chains that exist

vars == <<heap, slice, made>>

-----------------------------------------------------------------------------
\* Go slices.

Cell == Middlewares \cup {"nil"}

ArgLists == UNION {[1..n -> Middlewares] : n \in 0..MaxArgs}

\* An array with the elements of ms and n unused cells.
Array(ms, n) == [i \in 1..(Len(ms) + n) |-> IF i <= Len(ms) THEN ms[i] ELSE "nil"]

Elements(s) == [i \in 1..s.len |-> heap[s.arr][i]]

Cap(s) == Len(heap[s.arr])

\* x becomes a slice of a new array.
Allocate(x, array, n) ==
    /\ heap' = Append(heap, array)
    /\ slice' = [slice EXCEPT ![x] = [arr |-> Len(heap) + 1, len |-> n]]

\* Mutation: the capacity is off by one.
AppendSliceOverrun(x, ms) ==
    LET s == slice[x]
        n == s.len + Len(ms)
    IN  \/ /\ n <= Cap(s) + 1
           /\ heap' = [heap EXCEPT ![s.arr] =
                [i \in 1..Cap(s) |-> IF i \in (s.len + 1)..n THEN ms[i - s.len] ELSE @[i]]]
           /\ slice' = [slice EXCEPT ![x] = [arr |-> s.arr, len |-> n]]
        \/ /\ n > Cap(s) + 1
           /\ \E spare \in 0..MaxSpare : Allocate(x, Array(Elements(s) \o ms, spare), n)

\* append(slice of x, ms...): in place, or in a new array with room to grow.
AppendSlice(x, ms) ==
    LET s == slice[x]
        n == s.len + Len(ms)
    IN  \/ /\ n <= Cap(s)
           /\ heap' = [heap EXCEPT ![s.arr] =
                [i \in 1..Cap(s) |-> IF i \in (s.len + 1)..n THEN ms[i - s.len] ELSE @[i]]]
           /\ slice' = [slice EXCEPT ![x] = [arr |-> s.arr, len |-> n]]
        \/ /\ n > Cap(s)
           /\ \E spare \in 0..MaxSpare : Allocate(x, Array(Elements(s) \o ms, spare), n)

\* Mutation: the loop of Chain runs upwards.
ChainUpwards(ms) ==
    LET layers[i \in 0..Len(ms)] == IF i = 0 THEN <<>> ELSE <<ms[i]>> \o layers[i - 1]
    IN  layers[Len(ms)]

\* Chain wraps the handler in the last middleware, then in the one before it,
\* and so on; the result is known by its layers, outermost first.
Chain(ms) ==
    LET n == Len(ms)
        layers[i \in 0..n] == IF i = 0 THEN <<>> ELSE <<ms[n + 1 - i]>> \o layers[i - 1]
    IN  layers[n]

-----------------------------------------------------------------------------

TypeOK ==
    /\ heap \in Seq(Seq(Cell))
    /\ slice \in [Groups \cup Chains -> [arr : 1..Len(heap), len : Nat]]
    /\ made \subseteq Groups \cup Chains
    /\ \A x \in Groups \cup Chains : slice[x].len <= Cap(slice[x])

\* Array 1 is empty; array 2 is that of the caller's own slice.
Init ==
    /\ \E m \in Middlewares : heap = <<Array(<<>>, 0), Array(<<m>>, CallerSpare)>>
    /\ slice = [x \in Groups \cup Chains |-> [arr |-> 1, len |-> 0]]
    /\ made = {}

-----------------------------------------------------------------------------
\* The functions of the package.  x is the group or chain they return.

Create(x) == x \notin made /\ made' = made \cup {x}

\* NewGroup(a, b): the compiler makes the array of the variadic argument.
NewGroup(g) ==
    /\ Create(g)
    /\ \E ms \in ArgLists : Allocate(g, Array(ms, 0), Len(ms))

\* NewGroup(s...): the group keeps the caller's slice.
NewGroupOf(g) ==
    /\ Create(g)
    /\ slice' = [slice EXCEPT ![g] = [arr |-> 2, len |-> 1]]
    /\ UNCHANGED heap

Use(g) ==
    /\ g \in made
    /\ \E ms \in ArgLists : slice[g].len + Len(ms) <= MaxLen /\ AppendSlice(g, ms)
    /\ UNCHANGED made

\* Mutation: the copy is a copy of the slice, not of the array.
CloneSlice(g, h) ==
    /\ g \in made
    /\ Create(h)
    /\ slice' = [slice EXCEPT ![h] = slice[g]]
    /\ UNCHANGED heap

\* make([]Middleware, len) and copy.
Clone(g, h) ==
    /\ g \in made
    /\ Create(h)
    /\ Allocate(h, Array(Elements(slice[g]), 0), slice[g].len)

\* Clone().Use(ms...): the clone has no room, so append allocates once more.
Extend(g, h) ==
    /\ g \in made
    /\ Create(h)
    /\ \E ms \in ArgLists, spare \in 0..MaxSpare :
          LET all == Elements(slice[g]) \o ms
          IN  /\ Len(all) <= MaxLen
              /\ Len(ms) = 0 => spare = 0
              /\ Allocate(h, Array(all, spare), Len(all))

\* g.Middleware() hands the slice itself to Chain, whose closure keeps it.
Middleware(g, c) ==
    /\ g \in made
    /\ Create(c)
    /\ slice' = [slice EXCEPT ![c] = slice[g]]
    /\ UNCHANGED heap

Next ==
    \/ \E g \in Groups : NewGroup(g) \/ NewGroupOf(g) \/ Use(g)
    \/ \E g, h \in Groups : Clone(g, h) \/ Extend(g, h)
    \/ \E g \in Groups, c \in Chains : Middleware(g, c)

Spec == Init /\ [][Next]_vars

-----------------------------------------------------------------------------
\* Properties.

\* What is served through a group or a chain runs its middlewares in the
\* order they were given, the first one outermost ("Chain(A, B, C) produces
\* A(B(C(handler)))").
FirstIsOutermost ==
    \A x \in made : Chain(Elements(slice[x])) = Elements(slice[x])

\* Although append may write into an array in place and closures read it late,
\* groups and chains behave as values: no Use is lost or seen elsewhere.
G == INSTANCE Groups WITH
    list <- [x \in Groups \cup Chains |-> Elements(slice[x])]

ImplementsGroups == G!GSpec

=============================================================================
