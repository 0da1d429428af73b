----------------------------- MODULE MCServices -----------------------------
(***************************************************************************)
(* What is built on barriers and containers, for TLC, in one state space:  *)
(* a behaviour is one of one service, which service names; counting_set    *)
(* waits in an initial state meanwhile, and the other variables are 0.     *)
(***************************************************************************)
EXTENDS MCCounting

CONSTANTS
  Services,            \* the services that a run is about
  ReduceUses, NextHop  \* of module ReducingCache

VARIABLES
  service,
  messages, hooked, owed, remaining,                     \* of several services
  oper, stage, position, quota,                          \* of the operations in stages
  rUse, rCache, rEmpty, rStack, rTable,                  \* reducing_adapter
  policy, live, queue, flag, busy, next, done,           \* work_queue
  count, last_report, request, posted, report,           \* progress_indicator
  setup, mine, buffer, contents, gone,                   \* line_parser and multi_output
  local_items, new_items, slots, drawn                   \* alias_table

some == <<messages, hooked, owed, remaining>>
staged == <<oper, stage, position, quota>>
redOwn == <<rUse, rCache, rEmpty, rStack, rTable>>
wqOwn == <<policy, live, queue, flag, busy, next, done>>
progOwn == <<count, last_report, request, posted, report>>
lineOwn == <<setup, mine, buffer, contents, gone>>
aliasOwn == <<local_items, new_items, slots, drawn>>
all == <<service, vars, some, staged, redOwn, wqOwn, progOwn, lineOwn, aliasOwn>>

NoSome == messages = 0 /\ hooked = 0 /\ owed = 0 /\ remaining = 0
NoStages == oper = 0 /\ stage = 0 /\ position = 0 /\ quota = 0
NoRed == rUse = 0 /\ rCache = 0 /\ rEmpty = 0 /\ rStack = 0 /\ rTable = 0
NoWQ == policy = 0 /\ live = 0 /\ queue = 0 /\ flag = 0 /\ busy = 0 /\ next = 0 /\ done = 0
NoProg == count = 0 /\ last_report = 0 /\ request = 0 /\ posted = 0 /\ report = 0
NoLine == setup = 0 /\ mine = 0 /\ buffer = 0 /\ contents = 0 /\ gone = 0
NoAlias == local_items = 0 /\ new_items = 0 /\ slots = 0 /\ drawn = 0

-----------------------------------------------------------------------------
(***************************************************************************)
(* reducing_adapter: two nodes of two ranks, routed as by NLNR, two keys   *)
(* in one slot, two reductions.                                            *)
(***************************************************************************)
Nodes == INSTANCE Layout WITH lay <- 0, Layouts <- {}
Way == INSTANCE Routing WITH
  lay <- Nodes!LayoutOf([r \in 0..3 |-> r \div 2]), Layouts <- {},
  route <- 0, src <- 0, dest <- 0, at <- 0, trail <- 0
NLNRHop == [p \in (0..3) \X (0..3) |-> Way!next_hop("NLNR", p[1], p[2])]

ReduceUse(i, o) == [interrupts |-> i, one_node |-> o]
\* An async() runs handlers, or they reduce into caches, never both.
CarefulUses == {ReduceUse(FALSE, FALSE), ReduceUse(TRUE, TRUE)}
AnyUse == {ReduceUse(TRUE, FALSE)}

Red == INSTANCE ReducingCache WITH
  Ranks <- 0..3, Keys <- {1, 2}, Owner <- [k \in {1, 2} |-> k + 1],
  NumSlots <- 1, Slot <- [k \in {1, 2} |-> 1],
  Uses <- ReduceUses, MaxReduces <- 2,
  use <- rUse, cache <- rCache, empty <- rEmpty, hooks <- hooked, net <- messages,
  stack <- rStack, table <- rTable, due <- owed, left <- remaining

(***************************************************************************)
(* work_queue: two ranks, two insertions, two collectives.                 *)
(***************************************************************************)
WQ == INSTANCE WorkQueue WITH
  Ranks <- 0..1, Items <- {0, 1}, Policies <- {"fifo", "lifo", "priority"},
  MaxInserts <- 2, MaxCalls <- 2,
  hooks <- hooked, at <- position, call <- next, net <- messages, due <- owed,
  left <- remaining, calls <- quota

(***************************************************************************)
(* progress_indicator: three ranks, reports every two units of progress.   *)
(***************************************************************************)
Prog == INSTANCE ProgressIndicator WITH
  Ranks <- 0..2, UpdateFreq <- 2, Increments <- {1, 2}, MaxProgress <- 4, at <- position

(***************************************************************************)
(* Lines: two nodes of two ranks; shared files in a directory, one of them *)
(* in a subdirectory and one that cannot be read, or a file of each node;  *)
(* two days, whose files two ranks own.                                    *)
(***************************************************************************)
LineOf(n, t) == [length |-> n, time |-> t]
TextFiles ==
  <<[good |-> TRUE, lines |-> <<LineOf(2, 1), LineOf(2, 12), LineOf(3, 5)>>],
    [good |-> TRUE, lines |-> <<LineOf(2, 11)>>],
    [good |-> FALSE, lines |-> <<LineOf(1, 1)>>],
    [good |-> TRUE, lines |-> <<LineOf(1, 3), LineOf(1, 13)>>],
    [good |-> TRUE, lines |-> <<LineOf(2, 12)>>]>>
EntryOf(p, w, f, d) == [path |-> p, where |-> w, file |-> f, deep |-> d]
DirEntries ==
  {EntryOf("dir", -1, 1, FALSE), EntryOf("dir", -1, 2, TRUE), EntryOf("dir", -1, 3, FALSE),
   EntryOf("file", -1, 1, FALSE), EntryOf("tmp", 0, 4, FALSE), EntryOf("tmp", 1, 5, FALSE)}
PathGiven(p, l) == [path |-> p, local |-> l]
SetupOf(g, rec, skip, app) == [given |-> g, recursive |-> rec, skip_first_line |-> skip, append |-> app]
LineSetups ==
  {SetupOf({PathGiven("dir", FALSE), PathGiven("file", FALSE)}, TRUE, FALSE, FALSE),
   SetupOf({PathGiven("file", FALSE), PathGiven("tmp", TRUE)}, FALSE, TRUE, TRUE)}

Bytes == INSTANCE ByteRanges
ASSUME LinesReadOnce ==
  \A ranks \in 1..3, min \in 1..3, before \in 0..3, size \in 1..4, after \in 0..2, line \in 0..3 :
    line < size => Bytes!OneReader(ranks, min, before + size + after, before, size, line)

Lines == INSTANCE LineIO WITH
  NumRanks <- 4, LocalSize <- 2, Files <- TextFiles, Entries <- DirEntries, Setups <- LineSetups,
  MinBytes <- 2, BufferLength <- 3, Day <- 10, FileOwner <- [p \in {0, 1} |-> 2 * p + 1],
  MaxWrites <- 1, MaxReads <- 3,
  due <- owed, writes <- remaining, net <- messages, op <- oper, at <- position, ops <- quota

(***************************************************************************)
(* alias_table: three ranks, up to two items at each, light or heavy.      *)
(***************************************************************************)
ItemOf(r, n, w) == [id |-> 2 * r + n, weight |-> w]
ItemsAt(r) ==
  {<<>>} \cup {<<ItemOf(r, 0, v)>> : v \in {1, 4}}
         \cup {<<ItemOf(r, 0, v), ItemOf(r, 1, w)>> : v, w \in {1, 4}}
TableOf(in, a, b, c) ==
  [kind |-> "construct", input |-> in, given |-> [r \in 0..2 |-> IF r = 0 THEN a ELSE IF r = 1 THEN b ELSE c]]
TableInputs ==
  {TableOf("stl", g[1], g[2], g[3]) : g \in (ItemsAt(0) \X ItemsAt(1) \X ItemsAt(2)) \ {<< <<>>, <<>>, <<>> >>}}
  \cup {TableOf("container", <<>>, <<ItemOf(1, 0, 7)>>, <<ItemOf(2, 0, 1), ItemOf(2, 1, 0)>>)}

Alias == INSTANCE AliasTable WITH
  NumRanks <- 3, Inputs <- TableInputs, MaxSamples <- 1,
  table <- slots, samples <- remaining, net <- messages, op <- oper, at <- position, ops <- quota

-----------------------------------------------------------------------------
Is(s) == service = s /\ s \in Services

\* counting_set where it waits.
CSWaits == Init /\ use = Use(TRUE, FALSE) /\ call = "barrier"

AnyInit ==
  \/ /\ Is("counting") /\ Init
     /\ NoSome /\ NoStages
     /\ NoRed /\ NoWQ /\ NoProg /\ NoLine /\ NoAlias
  \/ /\ Is("reducing") /\ Red!Init /\ CSWaits
     /\ NoStages /\ NoWQ /\ NoProg /\ NoLine /\ NoAlias
  \/ /\ Is("work_queue") /\ WQ!Init /\ CSWaits
     /\ oper = 0 /\ stage = 0 /\ NoRed /\ NoProg /\ NoLine /\ NoAlias
  \/ /\ Is("progress") /\ Prog!Init /\ CSWaits
     /\ NoSome /\ oper = 0 /\ stage = 0 /\ quota = 0
     /\ NoRed /\ NoWQ /\ NoLine /\ NoAlias
  \/ /\ Is("lines") /\ Lines!Init /\ CSWaits
     /\ hooked = 0 /\ NoRed /\ NoWQ /\ NoProg /\ NoAlias
  \/ /\ Is("alias") /\ Alias!Init /\ CSWaits
     /\ hooked = 0 /\ owed = 0 /\ NoRed /\ NoWQ /\ NoProg /\ NoLine

CSOnly ==
  Is("counting") /\ UNCHANGED <<service, some, staged, redOwn, wqOwn, progOwn, lineOwn, aliasOwn>>

AnyNext ==
  \/ CSOnly /\ Next
  \/ Is("reducing") /\ Red!Next /\ UNCHANGED <<service, vars, staged, wqOwn, progOwn, lineOwn, aliasOwn>>
  \/ Is("work_queue") /\ WQ!Next
       /\ UNCHANGED <<service, vars, oper, stage, redOwn, progOwn, lineOwn, aliasOwn>>
  \/ Is("progress") /\ Prog!Next
       /\ UNCHANGED <<service, vars, some, oper, stage, quota, redOwn, wqOwn, lineOwn, aliasOwn>>
  \/ Is("lines") /\ Lines!Next /\ UNCHANGED <<service, vars, hooked, redOwn, wqOwn, progOwn, aliasOwn>>
  \/ Is("alias") /\ Alias!Next /\ UNCHANGED <<service, vars, hooked, owed, redOwn, wqOwn, progOwn, lineOwn>>

AnySpec == AnyInit /\ [][AnyNext]_all

\* The fairness of CountingCache.
AnyFairSpec ==
  /\ AnySpec
  /\ \A r \in Ranks : WF_all(CSOnly /\ Library(r)) /\ WF_all(CSOnly /\ Handler(r))
  /\ WF_all(CSOnly /\ Release)

-----------------------------------------------------------------------------
(***************************************************************************)
(* The properties of the services, each of its own.                        *)
(***************************************************************************)
ReductionsExact == service = "reducing" => Red!ReductionsExact
WorkDone == service = "work_queue" => WQ!WorkDone
ProgressExact == service = "progress" => Prog!ProgressExact
LinesKept == service = "lines" => Lines!LinesKept
TableExact == service = "alias" => Alias!TableExact
=============================================================================
