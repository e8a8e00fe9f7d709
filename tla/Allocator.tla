----------------------------- MODULE Allocator -----------------------------
(***************************************************************************)
(* What al_malloc and al_free promise their callers: a block does not      *)
(* overlap one still in use, and a request is refused only if there is no  *)
(* room for it.  A request above half a page is for a run of whole pages,  *)
(* a smaller one for a chunk of its size class; a page holds chunks of one *)
(* class only.                                                             *)
(***************************************************************************)
EXTENDS Integers

CONSTANTS
  NPages,
  Per       \* Per[c]: the chunks of class c in a page

VARIABLES
  runs,     \* blocks of whole pages in use, <<first page, number of pages>>
  chunks,   \* chunks in use, <<page, class, index>>
  got       \* whether the last request was met

vars == <<runs, chunks, got>>

Pages == 1 .. NPages
Classes == DOMAIN Per

Used == UNION {r[1] .. (r[1] + r[2] - 1) : r \in runs} \cup {x[1] : x \in chunks}

RoomFor(n) == {p \in Pages : p .. (p + n - 1) \subseteq Pages \ Used}

(* Free chunks of a class, in its own pages or in free ones.               *)
Spare(c) ==
  {p \in Pages : p \notin Used \/ \E x \in chunks : x[1] = p /\ x[2] = c}
    \X {c} \X (0 .. Per[c] - 1) \ chunks

Init == runs = {} /\ chunks = {} /\ got = TRUE

AllocRun(n) ==
  /\ \/ \E p \in RoomFor(n) : runs' = runs \cup {<<p, n>>}
     \/ RoomFor(n) = {} /\ UNCHANGED runs
  /\ got' = (RoomFor(n) # {})
  /\ UNCHANGED chunks

AllocChunk(c) ==
  /\ \/ \E x \in Spare(c) : chunks' = chunks \cup {x}
     \/ Spare(c) = {} /\ UNCHANGED chunks
  /\ got' = (Spare(c) # {})
  /\ UNCHANGED runs

FreeRun(r) == r \in runs /\ runs' = runs \ {r} /\ UNCHANGED <<chunks, got>>

FreeChunk(x) == x \in chunks /\ chunks' = chunks \ {x} /\ UNCHANGED <<runs, got>>

Next ==
  \/ \E n \in Pages : AllocRun(n)
  \/ \E c \in Classes : AllocChunk(c)
  \/ \E r \in runs : FreeRun(r)
  \/ \E x \in chunks : FreeChunk(x)

Spec == Init /\ [][Next]_vars
=============================================================================
