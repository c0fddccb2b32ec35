----------------------------- MODULE MCNerCache -----------------------------
(***************************************************************************)
(* An instance of NerCache: two windows of different contexts whose        *)
(* context and text run together to the same bytes, of which only one fits *)
(* into the cache at a time, and one that is larger than the cache.        *)
(***************************************************************************)
EXTENDS NerCache

ShortContext == [context |-> <<5>>, text |-> <<5, 5>>]
LongContext == [context |-> <<5, 5>>, text |-> <<5>>]

Large == [context |-> <<5>>, text |-> <<6>>]

MCWindows == {ShortContext, LongContext, Large}
MCOffsets == {0, 7}
MCSize == [w \in MCWindows |-> CASE w = ShortContext -> 1
                               [] w = LongContext -> 2
                               [] w = Large -> 3]
=============================================================================
