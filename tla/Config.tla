------------------------------- MODULE Config -------------------------------
(***************************************************************************)
(* The configuration: the REST handlers of alpha_api/rest, the database    *)
(* (alpha_api/db), the tables in memory they keep in step with it, and the *)
(* loading after a restart (alpha_api/conf).  One thread loads and then    *)
(* serves requests, one at a time (al_master_process); the process may die *)
(* between any two of its steps and is started again by its supervisor.    *)
(*                                                                         *)
(* An object's rows are one record under its id, written by one statement. *)
(* begin and commit do nothing; the destructor of al_db deletes the rows   *)
(* of an object whose creation failed.  Names, addresses and ports are     *)
(* left out.  What al_filter.c and al_member.c do is modelled in Filter    *)
(* and Member; here a call succeeds or fails as a whole.                   *)
(***************************************************************************)
EXTENDS Integers, Sequences, FiniteSets, SequencesExt, FiniteSetsExt

CONSTANTS
  MaxId,      \* bound on the ids al_db::newid gives out
  IdMod,      \* 2^16: a member is stored in memory under mid & 0xFFFF
  Shapes,     \* <<address_mask, proto>> of the filters requests ask for
  Strange     \* whether requests name groups that do not exist

ASSUME ConfigAssumption ==
  /\ MaxId \in Nat /\ IdMod \in Nat \ {0} /\ Strange \in BOOLEAN
  /\ Shapes \subseteq {"given", "none"} \X {"tcp", "udp", "all"}

VARIABLES
  db,         \* id -> row, of the objects with rows
  nextid,     \* next value of the sequence table
  up,         \* the process is running
  filters,    \* filters in memory: id -> [mask, proto]
  members,    \* groups in memory: filter id -> set of member ids
  op,         \* the request being served
  past        \* history of the process since its start:
              \*   since   the next id at the start
              \*   cut     an allocation failed in the loading
              \*   half    members whose request ended before its last group
              \*   amiss   ids whose rows the handler of another kind killed
configVars == <<db, nextid, up, filters, members, op, past>>
memory == <<filters, members>>

Live(kind) == {i \in DOMAIN db : db[i].kind = kind /\ db[i].live}
Drop(f, x) == [i \in DOMAIN f \ {x} |-> f[i]]
Put(f, x, v) == [i \in DOMAIN f \cup {x} |-> IF i = x THEN v ELSE f[i]]

GroupRow == [kind |-> "group", live |-> TRUE, group |-> 0, mask |-> "none",
             proto |-> "all"]
MemberRow(g) == [GroupRow EXCEPT !.kind = "member", !.group = g]
FilterRow(g, m, p) ==
  [kind |-> "filter", live |-> TRUE, group |-> g, mask |-> m, proto |-> p]

None == [what |-> "none", id |-> 0, todo |-> <<>>]
Serving(what, id, todo) == [what |-> what, id |-> id, todo |-> todo]

NoPast(n, cut) == [since |-> n, cut |-> cut, half |-> {}, amiss |-> {}]

ConfigInit ==
  /\ db = <<>> /\ nextid = 1 /\ up = TRUE
  /\ filters = <<>> /\ members = <<>>
  /\ op = None /\ past = NoPast(1, FALSE)

ApiIdle == up /\ op = None
NewId == nextid <= MaxId /\ nextid' = nextid + 1

(* al_all_filters_with_group_id, al_group_load_member.                     *)
FirstFilterOf(g) ==
  LET fs == {f \in Live("filter") : db[f].group = g} IN
  IF fs = {} THEN <<>> ELSE <<Min(fs)>>
FiltersOf(g) == SetToSortSeq({f \in Live("filter") : db[f].group = g}, <)
MembersOf(g) == {m \in Live("member") : db[m].group = g}

al_group_add ==
  /\ ApiIdle /\ NewId
  /\ db' = Put(db, nextid, GroupRow)
  /\ UNCHANGED <<up, memory, op, past>>

(* Every row of a filter that names the group counts, live or not.         *)
References(g) == {f \in DOMAIN db : db[f].kind = "filter" /\ db[f].group = g}

(* update aware set is_live = 0 where key2 = i: no test of key1, so the    *)
(* handlers for groups and for filters kill rows of every kind.            *)
Kill(i, kind) ==
  /\ db' = [db EXCEPT ![i].live = FALSE]
  /\ past' = IF db[i].live /\ db[i].kind # kind
             THEN [past EXCEPT !.amiss = @ \cup {i}] ELSE past

al_group_del(i) ==
  /\ ApiIdle /\ i \in DOMAIN db
  /\ References(i) = {}
  /\ Kill(i, "group")
  /\ UNCHANGED <<nextid, up, memory, op>>

(* al_member_add: the rows, then the group of every filter in turn.        *)
MemberRows(g) ==
  /\ ApiIdle /\ g \in Live("group") /\ NewId
  /\ db' = Put(db, nextid, MemberRow(g))
  /\ op' = Serving("member_add", nextid, FiltersOf(g))
  /\ UNCHANGED <<up, memory, past>>

Unfinished == past' = [past EXCEPT !.half = @ \cup {op.id}]

(* One ::al_member_add; a failure ends the request and ~al_db deletes the  *)
(* rows, while the groups already changed keep the member.                 *)
MemberToGroup(ok) ==
  /\ up /\ op.what = "member_add" /\ op.todo # <<>>
  /\ LET f == Head(op.todo) IN
     IF ok /\ f \in DOMAIN members
       THEN /\ members' = [members EXCEPT ![f] = @ \cup {op.id % IdMod}]
            /\ op' = [op EXCEPT !.todo = Tail(@)]
            /\ UNCHANGED <<db, past>>
       ELSE /\ op' = None
            /\ db' = Drop(db, op.id)
            /\ Unfinished
            /\ UNCHANGED members
  /\ UNCHANGED <<nextid, up, filters>>

(* al_member_del: the rows are dead before the groups are changed, and     *)
(* stay so when ::al_member_delete fails.                                  *)
MemberDead(m) ==
  /\ ApiIdle /\ m \in Live("member")
  /\ db' = [db EXCEPT ![m].live = FALSE]
  /\ op' = Serving("member_del", m, FiltersOf(db[m].group))
  /\ UNCHANGED <<nextid, up, memory, past>>

MemberFromGroup ==
  /\ up /\ op.what = "member_del" /\ op.todo # <<>>
  /\ LET f == Head(op.todo) IN
     IF f \in DOMAIN members /\ op.id \in members[f]
       THEN /\ members' = [members EXCEPT ![f] = @ \ {op.id}]
            /\ op' = [op EXCEPT !.todo = Tail(@)]
            /\ UNCHANGED past
       ELSE op' = None /\ Unfinished /\ UNCHANGED members
  /\ UNCHANGED <<db, nextid, up, filters>>

MemberDone ==
  /\ up /\ op.what \in {"member_add", "member_del"} /\ op.todo = <<>>
  /\ op' = None
  /\ UNCHANGED <<db, nextid, up, memory, past>>

(* al_filter_add: al_api_group_exist accepts any group.                    *)
FilterRows(g, shape) ==
  /\ ApiIdle /\ NewId
  /\ db' = Put(db, nextid, FilterRow(g, shape[1], shape[2]))
  /\ op' = Serving("filter_add", nextid, <<>>)
  /\ UNCHANGED <<up, memory, past>>

(* al_filter_insert loads the group of the filter, so it fails when that   *)
(* is not in the database.  A mask that is not given is not initialised:   *)
(* it may be zero ("any") or not, and all other values are one ("host").   *)
MaskUsed(m) == IF m = "given" THEN {"given"} ELSE {"any", "host"}
CanLoad(f) == db[f].group \in Live("group")

FilterToTable(ok, mask) ==
  LET f == op.id IN
  /\ up /\ op.what = "filter_add" /\ mask \in MaskUsed(db[f].mask)
  /\ IF ok /\ CanLoad(f)
       THEN /\ filters' = Put(filters, f, [mask |-> mask, proto |-> db[f].proto])
            /\ members' = Put(members, f, MembersOf(db[f].group))
            /\ op' = None
            /\ UNCHANGED db
       ELSE /\ op' = None
            /\ db' = Drop(db, f)
            /\ UNCHANGED memory
  /\ UNCHANGED <<nextid, up, past>>

(* al_filter_delete: the rows are dead first, whatever they are.  An id    *)
(* that is no filter's is then looked for under an address that is not     *)
(* initialised, and like one that is not in memory it is not found.        *)
FilterDead(i) ==
  /\ ApiIdle /\ i \in DOMAIN db
  /\ Kill(i, "filter")
  /\ op' = IF i \in DOMAIN filters THEN Serving("filter_del", i, <<>>) ELSE None
  /\ UNCHANGED <<nextid, up, memory>>

(* A mask that is not given is taken for zero.  The group stays in memory. *)
FilterFromTable ==
  LET f == op.id
      mask == IF db[f].mask = "given" THEN "given" ELSE "any"
  IN
  /\ up /\ op.what = "filter_del"
  /\ filters' = IF filters[f].mask = mask THEN Drop(filters, f) ELSE filters
  /\ op' = None
  /\ UNCHANGED <<db, nextid, up, members, past>>

(* The process dies: what is in memory is lost, the database is not.       *)
ConfigCrash ==
  /\ up /\ up' = FALSE
  /\ filters' = <<>> /\ members' = <<>> /\ op' = None
  /\ past' = NoPast(nextid, FALSE)
  /\ UNCHANGED <<db, nextid>>

(* al_filter_load, over the live filters in the order of their ids.  The   *)
(* branch for udp tests for "tcp" again, so the protocol of a udp filter   *)
(* is the one left in f by an earlier filter, or whatever was there: udp   *)
(* by chance, or something else.                                           *)
LoadedFilter(fs, i, junk) ==
  LET set == {k \in 1..i : db[fs[k]].proto # "udp"}
  IN  [mask  |-> IF db[fs[i]].mask = "given" THEN "given" ELSE "host",
       proto |-> IF set = {} THEN junk ELSE db[fs[Max(set)]].proto]

(* A filter that cannot be inserted ends the loading.                      *)
Loadable(fs) ==
  Min({i \in 1..Len(fs) : ~CanLoad(fs[i])} \cup {Len(fs) + 1}) - 1

Restart(n, junk) ==
  LET fs == SetToSortSeq(Live("filter"), <)
      ids == {fs[i] : i \in 1..n}
      at(f) == CHOOSE i \in 1..n : fs[i] = f
  IN
  /\ ~up /\ up' = TRUE
  /\ n <= Loadable(fs)
  /\ filters' = [f \in ids |-> LoadedFilter(fs, at(f), junk)]
  /\ members' = [f \in ids |-> MembersOf(db[f].group)]
  /\ past' = NoPast(nextid, n < Loadable(fs))
  /\ UNCHANGED <<db, nextid, op>>

(* Groups a request may name; 0 stands for every id that is no live        *)
(* group's.                                                                *)
GroupNames == Live("group") \cup (IF Strange THEN {0} ELSE {})

ConfigNext ==
  \/ al_group_add \/ MemberFromGroup \/ MemberDone \/ FilterFromTable \/ ConfigCrash
  \/ \E i \in DOMAIN db : al_group_del(i) \/ MemberRows(i) \/ MemberDead(i)
                          \/ FilterDead(i)
  \/ \E ok \in BOOLEAN : MemberToGroup(ok)
  \/ \E g \in GroupNames, shape \in Shapes : FilterRows(g, shape)
  \/ \E ok \in BOOLEAN, m \in {"given", "any", "host"} : FilterToTable(ok, m)
  \/ \E n \in 0..MaxId, junk \in {"udp", "junk"} : Restart(n, junk)

ConfigSpec == ConfigInit /\ [][ConfigNext]_configVars
-----------------------------------------------------------------------------
Rows == [kind : {"group", "member", "filter"}, live : BOOLEAN, group : 0..MaxId,
         mask : {"given", "none"}, proto : {"tcp", "udp", "all"}]

(* Types; rows and memory only know ids that al_db::newid has given out.   *)
ConfigTypeOK ==
  /\ nextid \in 1..(MaxId + 1) /\ DOMAIN db \subseteq 1..(nextid - 1)
  /\ db \in [DOMAIN db -> Rows]
  /\ DOMAIN filters \subseteq DOMAIN db /\ DOMAIN members \subseteq DOMAIN db
  /\ \A f \in DOMAIN members : members[f] \subseteq 0..MaxId
  /\ past.since \in 1..nextid /\ past.half \cup past.amiss \subseteq 1..MaxId

(* Live filters that are not served.                                       *)
Missing == Live("filter") \ DOMAIN filters

(* Rows of a filter whose group has no live rows.                          *)
Stray(f) == db[f].kind = "filter" /\ db[f].group \notin Live("group")

(* Between requests, a live filter is not in memory only when the loading  *)
(* has not come to it: with it every later filter of the loading is        *)
(* missing, an allocation has failed or a stray filter stands before it,   *)
(* and no filter added since is missing.                                   *)
FiltersServed ==
  \A f \in Missing :
    /\ f < past.since
    /\ \A g \in DOMAIN filters : g < f \/ g >= past.since
    /\ past.cut \/ \E g \in DOMAIN db : g <= f /\ Stray(g)

(* A filter in memory whose rows are dead is one that another handler has  *)
(* killed, or one without a mask that is in memory as a host: the deletion *)
(* looks for it under the mask zero.                                       *)
FiltersGone ==
  \A f \in DOMAIN filters :
    db[f].live \/ f \in past.amiss \/ filters[f].mask = "host"

(* Each filter served has every live member of its group and no other, but *)
(* for members of a request that ended half way and members another        *)
(* handler has killed.                                                     *)
MembersServed ==
  \A f \in Live("filter") \cap DOMAIN filters :
    LET rows == MembersOf(db[f].group) IN
    /\ rows \subseteq members[f]
    /\ members[f] \subseteq rows \cup past.half \cup past.amiss

(* Between requests memory holds what the database holds, for ids that fit *)
(* in 16 bits: a crash at any step of any request is repaired by the next  *)
(* start, and where the two part, it is in the objects named above.        *)
Consistent ==
  (ApiIdle /\ nextid <= IdMod) => FiltersServed /\ FiltersGone /\ MembersServed

(* A group is not deleted under a filter in memory, even under one whose   *)
(* deletion failed after its rows had been marked dead, unless its id is   *)
(* given to al_filter_delete.                                              *)
GroupOutlivesFilters ==
  \A f \in DOMAIN filters : db[f].group \in Live("group") \cup past.amiss

(* A filter in memory is for the protocol its row names: always when       *)
(* al_filter_add has put it there, and unless that is udp when             *)
(* al_filter_load has.                                                     *)
ProtocolKept ==
  \A f \in DOMAIN filters :
    filters[f].proto # db[f].proto => db[f].proto = "udp" /\ f < past.since

(* What the handlers of alpha_api/rest, a crash between any two of their   *)
(* steps and the loading of alpha_api/conf leave behind: memory and rows   *)
(* agree, and no filter in memory has lost its group or its protocol, but  *)
(* for the objects of the requests and of the loading that went wrong.     *)
ConfigKept == Consistent /\ GroupOutlivesFilters /\ ProtocolKept
=============================================================================
