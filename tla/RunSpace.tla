------------------------------- MODULE RunSpace -------------------------------
(***************************************************************************)
(* Expansion of a run space into runs (execution/run_space.py): blocks of  *)
(* value lists, written in the configuration or read from a file, become a *)
(* sequence of runs, each a mapping of context keys to values.             *)
(*                                                                         *)
(* A list of values per key is a function from keys to sequences. Keys are *)
(* numbers, so that they are sorted as the code sorts names; values are    *)
(* opaque. A result is a record of an error ("none" when there is none)    *)
(* and of the runs. Paths, parsing and the conversion of scalars are left  *)
(* out: a file is the rows or the columns that it holds.                   *)
(***************************************************************************)
EXTENDS Enumeration, SequencesExt

None == 0             \* Python's None: a cell that a CSV row does not have
NoSource == [format |-> "none"]   \* a block without a source

NoEntries == [k \in {} |-> None]

Ok(runs)    == [error |-> "none", runs |-> runs]
Error(why)  == [error |-> why, runs |-> <<>>]

-----------------------------------------------------------------------------
(* Sources *)

Header(rows) == UNION {DOMAIN rows[i] : i \in DOMAIN rows}

\* The values of those rows that have the key.
Column(rows, k) ==
    LET upTo[n \in 0 .. Len(rows)] ==
            IF n = 0 THEN <<>>
            ELSE IF k \in DOMAIN rows[n] THEN Append(upTo[n - 1], rows[n][k]) ELSE upTo[n - 1]
    IN  upTo[Len(rows)]

\* _load_source_file
Columns(src) ==
    CASE src.format = "csv" ->
           [k \in src.header |-> [i \in DOMAIN src.rows |->
               IF k \in DOMAIN src.rows[i] THEN src.rows[i][k] ELSE None]]
      [] src.format = "rows" -> [k \in Header(src.rows) |-> Column(src.rows, k)]
      [] OTHER -> src.columns

Target(src, k) == IF k \in DOMAIN src.rename THEN src.rename[k] ELSE k

\* _load_and_process_source: select (empty when there is none), then rename.
Source(src) ==
    LET all  == Columns(src)
        kept == IF src.select = {} THEN DOMAIN all ELSE src.select
        to   == {Target(src, k) : k \in kept}
    IN  IF src.format = "malformed" THEN [error |-> "malformed", columns |-> NoEntries]
        ELSE IF ~(kept \subseteq DOMAIN all) THEN [error |-> "select", columns |-> NoEntries]
        ELSE IF Cardinality(to) # Cardinality(kept)
             THEN [error |-> "rename", columns |-> NoEntries]
        ELSE [error |-> "none",
              columns |-> [t \in to |-> all[CHOOSE k \in kept : Target(src, k) = t]]]

-----------------------------------------------------------------------------
(* Expansion *)

Over(f, g) ==
    [k \in DOMAIN f \union DOMAIN g |-> IF k \in DOMAIN f THEN f[k] ELSE g[k]]

\* Every run of a with every run of b, those of b varying faster.
Cross(a, b) ==
    [i \in 1 .. (Len(a) * Len(b)) |->
        Over(b[((i - 1) % Len(b)) + 1], a[((i - 1) \div Len(b)) + 1])]

Pairwise(a, b) == [i \in DOMAIN a |-> Over(b[i], a[i])]

\* The product of all parts, and what they give position by position.
CrossAll(parts) ==
    LET upTo[n \in 0 .. Len(parts)] ==
            IF n = 0 THEN <<NoEntries>> ELSE Cross(upTo[n - 1], parts[n])
    IN  upTo[Len(parts)]
PairAll(parts) ==
    LET upTo[n \in 1 .. Len(parts)] ==
            IF n = 1 THEN parts[1] ELSE Pairwise(upTo[n - 1], parts[n])
    IN  upTo[Len(parts)]

Single(entries, k) == [i \in DOMAIN entries[k] |-> [l \in {k} |-> entries[k][i]]]

ExpandSparse(entries, mode) ==          \* mutant: a run leaves out the keys without a value
    IF DOMAIN entries = {} THEN Ok(<<>>)
    ELSE LET k == CHOOSE k \in DOMAIN entries : TRUE
         IN  Ok([i \in DOMAIN entries[k] |->
                   [l \in {m \in DOMAIN entries :
                             i <= Len(entries[m]) /\ entries[m][i] # None} |-> entries[l][i]]])

\* _expand_entries
Expand(entries, mode) ==
    IF DOMAIN entries = {} THEN Ok(<<>>)
    ELSE IF mode = "by_position"
    THEN LET k == CHOOSE k \in DOMAIN entries : TRUE
         IN  IF \E l \in DOMAIN entries : Len(entries[l]) # Len(entries[k])
             THEN Error("lengths")
             ELSE Ok([i \in DOMAIN entries[k] |-> [l \in DOMAIN entries |-> entries[l][i]]])
    ELSE IF mode = "combinatorial"
    THEN LET names == Sorted(DOMAIN entries)
         IN  Ok(CrossAll([j \in DOMAIN names |-> Single(entries, names[j])]))
    ELSE Error("mode")

SourceOf(block) ==
    IF block.source = NoSource THEN [error |-> "none", columns |-> NoEntries]
    ELSE Source(block.source)
SourceMode(block) ==
    IF block.source = NoSource THEN block.mode ELSE block.source.mode

Keys(block) == DOMAIN block.context \union DOMAIN SourceOf(block).columns

\* One block of expand_run_space. An empty part counts as nothing when the
\* block is expanded by position, and as one empty run when it is a product.
Block(block) ==
    LET columns == SourceOf(block).columns
        given   == Expand(block.context, block.mode)
        read    == Expand(columns, SourceMode(block))
        parts   == {part \in {<<block.context, given>>, <<columns, read>>} :
                       DOMAIN part[1] # {}}
        OrOne(entries, runs) == IF DOMAIN entries = {} THEN <<NoEntries>> ELSE runs
    IN  IF SourceOf(block).error # "none" THEN Error(SourceOf(block).error)
        ELSE IF DOMAIN block.context \intersect DOMAIN columns # {} THEN Error("twice")
        ELSE IF block.mode \notin {"by_position", "combinatorial"} THEN Error("mode")
        ELSE IF given.error # "none" THEN given
        ELSE IF read.error # "none" THEN read
        ELSE IF block.mode = "combinatorial"
        THEN Ok(Cross(OrOne(block.context, given.runs), OrOne(columns, read.runs)))
        ELSE IF Cardinality({Len(part[2].runs) : part \in parts}) > 1 THEN Error("sizes")
        ELSE IF DOMAIN columns = {} THEN given
        ELSE IF DOMAIN block.context = {} THEN read
        ELSE Ok(Pairwise(given.runs, read.runs))

\* What is wrong with block i, its keys being checked against the blocks before it.
BlockError(blocks, i) ==
    IF Block(blocks[i]).error # "none" THEN Block(blocks[i]).error
    ELSE IF \E j \in 1 .. (i - 1) : Keys(blocks[j]) \intersect Keys(blocks[i]) # {}
    THEN "acrossBlocks"
    ELSE "none"

CombineShort(spec, parts) ==            \* mutant: runs beyond max_runs are cut off
    IF \E i \in DOMAIN parts : parts[i] = <<>> THEN Ok(<<>>)
    ELSE IF spec.combine = "combinatorial"
    THEN LET runs == CrossAll(parts)
         IN  Ok(SubSeq(runs, 1, Min({Len(runs), spec.max_runs})))
    ELSE Ok(PairAll(parts))

\* How many runs there will be.
Announced(spec, parts) ==
    LET upTo[n \in 0 .. Len(parts)] == IF n = 0 THEN 1 ELSE upTo[n - 1] * Len(parts[n])
    IN  IF spec.combine = "combinatorial" THEN upTo[Len(parts)] ELSE Len(parts[1])

\* The end of expand_run_space: the limit is checked before the runs are built.
Combine(spec, parts) ==
    LET sizes == {Len(parts[i]) : i \in DOMAIN parts}
    IN  IF parts = <<>> THEN Ok(<<NoEntries>>)
        ELSE IF spec.combine \notin {"by_position", "combinatorial"} THEN Error("combine")
        ELSE IF spec.combine = "combinatorial" /\ 0 \in sizes THEN Ok(<<>>)
        ELSE IF spec.combine = "by_position" /\ Cardinality(sizes) > 1
        THEN Error("combineSizes")
        ELSE IF Announced(spec, parts) > spec.max_runs THEN Error("maxRuns")
        ELSE IF spec.combine = "combinatorial" THEN Ok(CrossAll(parts))
        ELSE Ok(PairAll(parts))

\* expand_run_space: the first block with an error decides.
ExpandRunSpace(spec) ==
    LET wrong == {i \in DOMAIN spec.blocks : BlockError(spec.blocks, i) # "none"}
    IN  IF wrong # {} THEN Error(BlockError(spec.blocks, Min(wrong)))
        ELSE Combine(spec, [i \in DOMAIN spec.blocks |-> Block(spec.blocks[i]).runs])

-----------------------------------------------------------------------------
(* What a configuration and a file may hold: lists of values, rows, a limit *)

IsList(s)         == s \in Seq(Range(s))
AreKeys(ks)       == ks \subseteq Int /\ IsFiniteSet(ks)
AreLists(entries) == \A k \in DOMAIN entries : IsList(entries[k])
IsSource(src) ==
    IF src.format \in {"csv", "rows"} THEN IsList(src.rows)
    ELSE src.format # "malformed" => AreLists(src.columns)
IsRunSpace(spec) ==
    /\ IsList(spec.blocks) /\ spec.max_runs \in Int
    /\ \A i \in DOMAIN spec.blocks :
         LET block == spec.blocks[i] IN
         /\ AreLists(block.context) /\ AreKeys(DOMAIN block.context)
         /\ block.source # NoSource =>
              IsSource(block.source) /\ AreKeys(DOMAIN SourceOf(block).columns)

-----------------------------------------------------------------------------
(* What an expansion is meant to be, stated without building it *)

CountEntries(entries, mode) ==
    IF mode = "combinatorial"
    THEN ProductOver([k \in DOMAIN entries |-> Len(entries[k])], DOMAIN entries)
    ELSE Len(entries[CHOOSE k \in DOMAIN entries : TRUE])

\* A block without keys has no run by position and one run as a product.
CountBlock(block) ==
    LET columns == SourceOf(block).columns
        counts  == {CountEntries(part[1], part[2]) : part \in
                     {p \in {<<block.context, block.mode>>, <<columns, SourceMode(block)>>} :
                         DOMAIN p[1] # {}}}
        given   == IF DOMAIN block.context = {} THEN 1
                   ELSE CountEntries(block.context, block.mode)
        read    == IF DOMAIN columns = {} THEN 1 ELSE CountEntries(columns, SourceMode(block))
    IN  IF block.mode = "combinatorial" THEN given * read
        ELSE IF counts = {} THEN 0 ELSE Max(counts)

Count(spec) ==
    IF spec.blocks = <<>> THEN 1
    ELSE IF spec.combine = "combinatorial"
    THEN ProductOver([i \in DOMAIN spec.blocks |-> CountBlock(spec.blocks[i])],
                     DOMAIN spec.blocks)
    ELSE CountBlock(spec.blocks[1])

\* The values of run come from one position of the lists where positions are tied,
\* and from any position of each list where they are not.
Picks(run, entries, mode) ==
    IF mode = "by_position"
    THEN DOMAIN entries = {} \/
         \E i \in DOMAIN entries[CHOOSE k \in DOMAIN entries : TRUE] :
             \A k \in DOMAIN entries : run[k] = entries[k][i]
    ELSE \A k \in DOMAIN entries : \E i \in DOMAIN entries[k] : run[k] = entries[k][i]

\* No two positions have the same values: of all lists where positions are tied, of each
\* list where they are not.
Differ(entries, mode) ==
    IF mode = "by_position"
    THEN \A k \in DOMAIN entries : \A i, j \in DOMAIN entries[k] :
             (\A l \in DOMAIN entries : entries[l][i] = entries[l][j]) => i = j
    ELSE \A k \in DOMAIN entries : IsInjective(entries[k])
AllDiffer(spec) ==
    \A i \in DOMAIN spec.blocks :
        /\ Differ(spec.blocks[i].context, spec.blocks[i].mode)
        /\ Differ(SourceOf(spec.blocks[i]).columns, SourceMode(spec.blocks[i]))

KeysOf(spec) == UNION {Keys(spec.blocks[i]) : i \in DOMAIN spec.blocks}

Drawn(run, spec) ==
    /\ DOMAIN run = KeysOf(spec)
    /\ \A i \in DOMAIN spec.blocks :
         /\ Picks(run, spec.blocks[i].context, spec.blocks[i].mode)
         /\ Picks(run, SourceOf(spec.blocks[i]).columns, SourceMode(spec.blocks[i]))

\* src is read by position, from rows with the same keys or with their gaps filled.
\* (A file without rows is a source without keys, which changes nothing.)
InRows(src) ==
    /\ src.format \in {"csv", "rows"} /\ src.mode = "by_position" /\ src.rows # <<>>
    /\ src.format = "rows" =>
         \A i \in DOMAIN src.rows : DOMAIN src.rows[i] = Header(src.rows)

\* The values that run has from src are those of a single row.
FromOneRow(run, src) ==
    \E i \in DOMAIN src.rows :
        \A k \in DOMAIN Source(src).columns :
            \E l \in DOMAIN Columns(src) :
                /\ Target(src, l) = k
                /\ run[k] = IF l \in DOMAIN src.rows[i] THEN src.rows[i][l] ELSE None

IsExpansion(runs, spec) ==
    /\ Len(runs) = Count(spec)
    /\ runs # <<>> /\ spec.blocks # <<>> => Len(runs) <= spec.max_runs
    /\ AllDiffer(spec) => \A i, j \in DOMAIN runs : runs[i] = runs[j] => i = j
    /\ \A i \in DOMAIN runs : Drawn(runs[i], spec)
    /\ \A b \in DOMAIN spec.blocks :
         InRows(spec.blocks[b].source) =>
             \A i \in DOMAIN runs : FromOneRow(runs[i], spec.blocks[b].source)
===============================================================================
