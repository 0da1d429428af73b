------------------------------- MODULE LineIO -------------------------------
(***************************************************************************)
(* Reading and writing lines in parallel: ygm::io::line_parser splits files*)
(* into ranges of bytes, one or more per rank, and calls a function for    *)
(* each line; here the function writes it by async_write_line() of a       *)
(* daily_output, whose multi_output has one rank own each file, buffer its *)
(* lines, and write them when the buffer is full or it is destroyed.       *)
(* A file is a sequence of lines with their lengths, '\n' included.        *)
(***************************************************************************)
EXTENDS Stages, ByteRanges, Sequences, SequencesExt, FiniteSetsExt

CONSTANTS
  NumRanks, LocalSize,  \* nodes of LocalSize ranks each
  Files,                \* Files[f]: its lines, and whether it can be read
  Entries,              \* the directories: what is found where, see Found
  Setups,               \* what parser and output are constructed with
  MinBytes,             \* the smallest range, 8 MB
  BufferLength, Day,    \* a day, in the units of the lines' timestamps
  FileOwner,            \* FileOwner[p]: partitioner of the output
  MaxWrites, MaxReads   \* bounds: lines that the program writes itself; operations

VARIABLES
  setup,
  mine,      \* the lines of r's my_file_paths that it has yet to read
  buffer,    \* m_map_file_pointers: of each open file, the lines in its buffer
  contents,  \* of each file, the lines on disk
  due,       \* of each file, the lines that are to be there
  gone,      \* the ranks whose output is destroyed
  writes

outVars == <<buffer, contents>>
vars == <<setup, mine, outVars, due, gone, writes, net, stageVars>>

World == 0..NumRanks - 1
Outputs == DOMAIN FileOwner

\* A line is <<file, number>>; what a file holds from before; the program's own.
Old == <<0, 0>>
Own == <<0, 1>>

Init ==
  /\ StagesInit(World, MaxReads)
  /\ setup \in Setups
  /\ mine = [r \in World |-> <<>>]
  /\ buffer = <<>> /\ contents = [p \in Outputs |-> SetToBag({Old})]
  /\ due = [p \in Outputs |-> EmptyBag]
  /\ gone = {} /\ writes = MaxWrites

-----------------------------------------------------------------------------
(***************************************************************************)
(* check_paths: "local://" is looked up by the first rank of each node, in *)
(* its own file system, anything else by rank 0; a directory with its sub- *)
(* directories or without.                                                 *)
(***************************************************************************)
Shared == -1
node(r) == r \div LocalSize
local_ranks(n) == n * LocalSize..(n + 1) * LocalSize - 1
Leader(r) == r % LocalSize = 0

is_file_good(f) == Files[f].good
Found(path, where) ==
  {e.file : e \in {x \in Entries : x.path = path /\ x.where = where /\ (x.deep => setup.recursive)
                                   /\ is_file_good(x.file)}}

distributed == UNION {Found(g.path, Shared) : g \in {x \in setup.given : ~x.local}}
local(n) == UNION {Found(g.path, n) : g \in {x \in setup.given : x.local}}

(***************************************************************************)
(* for_all(): the files, end to end, are cut into a range per rank.        *)
(***************************************************************************)
Line(f, n) == Files[f].lines[n]
LineBegin(f, n) == MapThenSumSet(LAMBDA k : Line(f, k).length, 1..n - 1)
file_size(f) == LineBegin(f, Len(Files[f].lines) + 1)

\* Of files, in the order of their numbers, the last is handed out first.
Ranges(files, ranks) ==
  LET bytes_per_rank == BytesPerRank(MapThenSumSet(file_size, files), Cardinality(ranks), MinBytes)
      Before(f) == MapThenSumSet(file_size, {g \in files : g > f})
      Turn(r) == Cardinality({q \in ranks : q < r})
  IN {[to |-> r, file |-> f, first |-> RangeBegin(Turn(r), Before(f), bytes_per_rank),
       last |-> RangeEnd(Turn(r), Before(f), file_size(f), bytes_per_rank)] :
        <<r, f>> \in {rf \in ranks \X files :
                        HasRange(Turn(rf[1]), Before(rf[2]), file_size(rf[2]), bytes_per_rank)}}

Assigned(r) ==
  (IF r = 0 THEN Ranges(distributed, World) ELSE {})
    \cup (IF Leader(r) THEN Ranges(local(node(r)), local_ranks(node(r))) ELSE {})

\* Mutant: a line that begins where the range ends is left to the next rank.
ReadsBefore(m, n) ==
  /\ LineBegin(m.file, n) < m.last
  /\ m.first = 0 \/ LineBegin(m.file, n) > m.first

Reads(m, n) == ReadsFrom(m.first, m.last, LineBegin(m.file, n))

Skipped(n) == n = 1 /\ setup.skip_first_line
LinesOf(m) ==
  LET lines == {n \in DOMAIN Files[m.file].lines : Reads(m, n) /\ ~Skipped(n)}
  IN [k \in 1..Cardinality(lines) |-> <<m.file, SetToSortSeq(lines, <)[k]>>]

-----------------------------------------------------------------------------
\* daily_output: the file of a day.
date_path(time) == time \div Day

\* All files that are found, each line once.
EveryLine ==
  LET files == distributed \cup UNION {local(node(r)) : r \in World}
  IN UNION {{<<f, n>> : n \in {k \in DOMAIN Files[f].lines : ~Skipped(k)}} : f \in files}

PathOf(line) == IF line = Own THEN 0 ELSE date_path(Line(line[1], line[2]).time)
LengthOf(line) == IF line = Own THEN 1 ELSE Line(line[1], line[2]).length

Write(line) == [kind |-> "write", to |-> FileOwner[PathOf(line)], line |-> line]
Part(m) == [kind |-> "range", to |-> m.to, range |-> m]

\* The program calls async_write_line itself.
AsyncWriteLine(r) ==
  /\ Sending(r) /\ r \notin gone /\ writes > 0 /\ writes' = writes - 1
  /\ net' = Plus(net, {Write(Own)})
  /\ due' = [due EXCEPT ![PathOf(Own)] = BagAdd(@, Own)]
  /\ UNCHANGED <<setup, mine, outVars, gone, stageVars>>

ForAll == [kind |-> "for_all"]
Destroy == [kind |-> "destroy"]

Call(r, o) ==
  /\ Enter(r, o, gone = {}, FALSE)
  /\ UNCHANGED <<setup, mine, outVars, due, gone, writes>>

Barrier ==
  /\ Pass(IF op = ForAll THEN 2 ELSE 1, TRUE)
  /\ due' = IF op = ForAll /\ stage = 0
              THEN [p \in Outputs |-> Plus(due[p], {l \in EveryLine : PathOf(l) = p})]
              ELSE due
  /\ UNCHANGED <<setup, mine, outVars, gone, writes>>

Assign(r) ==
  /\ InStage(r, {"for_all"}, 1)
  /\ net' = Plus(net, {Part(m) : m \in Assigned(r)})
  /\ DonePart(r, 2)
  /\ UNCHANGED <<setup, mine, outVars, due, gone, writes>>

Reading(r) == InStage(r, {"for_all"}, 2)

HandleRange(m) ==
  /\ m.kind = "range" /\ Receiving(m.to)
  /\ mine' = [mine EXCEPT ![m.to] = @ \o LinesOf(m.range)]
  /\ net' = BagRemove(net, m)
  /\ UNCHANGED <<setup, outVars, due, gone, writes, stageVars>>

ReadLine(r) ==
  /\ Reading(r) /\ mine[r] # <<>>
  /\ net' = Plus(net, {Write(Head(mine[r]))})
  /\ mine' = [mine EXCEPT ![r] = Tail(@)]
  /\ UNCHANGED <<setup, outVars, due, gone, writes, stageVars>>
ReadAll(r) ==
  /\ Reading(r) /\ mine[r] = <<>>
  /\ DonePart(r, 2)
  /\ UNCHANGED <<setup, mine, outVars, due, gone, writes, net>>

(***************************************************************************)
(* multi_output, at the owner of a file.                                   *)
(***************************************************************************)
BufferSize(b) == MapThenSumSet(LAMBDA l : b[l] * LengthOf(l), BagToSet(b))

\* Opened for the first line, the file is truncated or appended to.
Buffered(p) == IF p \in DOMAIN buffer THEN buffer[p] ELSE EmptyBag
make_buffered_ofstream(p) == IF p \in DOMAIN buffer \/ setup.append THEN contents[p] ELSE EmptyBag

buffer_output(p, line) ==
  LET b == BagAdd(Buffered(p), line)
      full == BufferSize(b) > BufferLength
      file == make_buffered_ofstream(p)
  IN /\ buffer' = [q \in DOMAIN buffer \cup {p} |-> IF q # p THEN buffer[q] ELSE IF full THEN EmptyBag ELSE b]
     /\ contents' = [contents EXCEPT ![p] = IF full THEN file (+) b ELSE file]

HandleWrite(m) ==
  /\ m.kind = "write" /\ (Receiving(m.to) \/ Reading(m.to))
  /\ buffer_output(PathOf(m.line), m.line)
  /\ net' = BagRemove(net, m)
  /\ UNCHANGED <<setup, mine, due, gone, writes, stageVars>>

\* The destructor, after its barrier.
Owned(r) == {p \in DOMAIN buffer : FileOwner[p] = r}
flush_all_buffers(r) ==
  /\ InStage(r, {"destroy"}, 1)
  /\ contents' = [p \in Outputs |-> IF p \in Owned(r) THEN contents[p] (+) buffer[p] ELSE contents[p]]
  /\ buffer' = [p \in DOMAIN buffer \ Owned(r) |-> buffer[p]]
  /\ gone' = gone \cup {r}
  /\ DonePart(r, 1)
  /\ UNCHANGED <<setup, mine, due, writes, net>>

Finished == op = Idle /\ net = EmptyBag /\ (ops = 0 \/ gone # {}) /\ UNCHANGED vars

Next ==
  \/ \E r \in World :
       \/ AsyncWriteLine(r) \/ Call(r, ForAll) \/ Call(r, Destroy)
       \/ Assign(r) \/ ReadLine(r) \/ ReadAll(r) \/ flush_all_buffers(r)
  \/ \E m \in BagToSet(net) : HandleRange(m) \/ HandleWrite(m)
  \/ Barrier
  \/ Finished

Spec == Init /\ [][Next]_vars

-----------------------------------------------------------------------------
\* After the output is destroyed each line that was found is on disk, once for
\* each for_all(), with those that the program wrote, in the file of its day,
\* and what was in the file before is there if it is appended to or not opened.
LinesKept ==
  gone = World =>
    \A p \in Outputs :
      contents[p] = IF setup.append \/ due[p] = EmptyBag THEN SetToBag({Old}) (+) due[p] ELSE due[p]
=============================================================================
