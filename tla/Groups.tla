------------------------------- MODULE Groups -------------------------------
(***************************************************************************)
(* What a middleware group promises (the comments of chain/chain.go): a    *)
(* group is a list of middlewares, a value of its own.  Use changes the    *)
(* group it is called on and no other; Clone, Extend and Middleware make   *)
(* something that never changes with the original again.                   *)
(***************************************************************************)
EXTENDS Naturals, Sequences

CONSTANTS Groups,       \* the *Group values a program makes
          Chains,       \* the Middleware values it takes from groups
          ArgLists      \* the argument lists of NewGroup, Use and Extend

VARIABLES made,         \* the groups and chains that exist
          list          \* the middlewares of each, outermost first

gvars == <<made, list>>

GInit ==
    /\ made = {}
    /\ list = [x \in Groups \cup Chains |-> <<>>]

Make(x, ms) ==
    /\ x \notin made
    /\ made' = made \cup {x}
    /\ list' = [list EXCEPT ![x] = ms]

New(g) == \E ms \in ArgLists : Make(g, ms)

Add(g) ==
    /\ g \in made
    /\ \E ms \in ArgLists : list' = [list EXCEPT ![g] = @ \o ms]
    /\ UNCHANGED made

Copy(g, x) == g \in made /\ Make(x, list[g])

CopyAndAdd(g, h) == g \in made /\ \E ms \in ArgLists : Make(h, list[g] \o ms)

GNext ==
    \/ \E g \in Groups : New(g) \/ Add(g)
    \/ \E g, h \in Groups : Copy(g, h) \/ CopyAndAdd(g, h)
    \/ \E g \in Groups, c \in Chains : Copy(g, c)

GSpec == GInit /\ [][GNext]_gvars

=============================================================================
