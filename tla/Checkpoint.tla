----------------------------- MODULE Checkpoint -----------------------------
(***************************************************************************)
(* Checkpointing (adlb-xpt.c, xpt_index.c): ranks write entries to the      *)
(* checkpoint file and to an index shared by all; the job ends or crashes;  *)
(* a later job reloads the file into a new index.                           *)
(*                                                                          *)
(* cache is the file as processes see it, disk what survives a crash for    *)
(* certain: fsync makes them the same.  In a crash every page that differs  *)
(* is found in its old or in its new state, and so is the length of the     *)
(* file.  Each rank follows one of the given programs of writes, in steps   *)
(* that end where another rank, or a crash, can come in between.  Both      *)
(* builds are modelled: with assertions, and without (--enable-fast).       *)
(***************************************************************************)
EXTENDS XptFile, FiniteSets, SequencesExt

CONSTANTS Programs,     \* jobs: [policy, ops], ops a sequence of writes a rank
          MaxIndexVal,  \* max_index_val_bytes
          Page,         \* the unit in which the system writes to disk
          Loaders       \* the number of ranks that reload

ASSUME CheckpointAssumption ==
    /\ Page \in Nat \ {0} /\ Loaders \in Nat \ {0} /\ MaxIndexVal \in Nat

VARIABLES job,      \* the program that runs: [policy, ops]
          garble,   \* what a cell that is no length decodes to
          state,    \* of each rank: "start", "init", "open", "closed"
          writer,   \* xpt_state of each rank
          pc,       \* what is left of the call that a rank is in
          todo,     \* the writes that a rank still has to do
          cache, disk,
          index,    \* the sharded container: entries by key
          reload,   \* of each loader: the next rank to load; <<>> before
          stats,    \* rank_stats: [valid, invalid] of each rank loaded
          laid,     \* of each rank: its entries that lie in its first block
          acked,    \* those of them that a flush of the rank has covered
          ended,    \* how the job ended: "no" (it runs), "clean", "crash"
          aborted   \* whether an assertion ended the reload

vars == <<asserts, job, garble, state, writer, pc, todo, cache, disk, index,
          reload, stats, laid, acked, ended, aborted>>

Rank == 0 .. Ranks - 1
NotLoaded == [valid |-> 0, invalid |-> 0]
Idle == [at |-> "idle"]
Dead == [at |-> "dead"]    \* past its buffer, or in a failed assertion
Ops(j) == UNION {ToSet(j.ops[r]) : r \in Rank}

\* The file after the pwrites of a writer.
RECURSIVE Pwrites(_, _)
Pwrites(F, out) ==
    IF out = <<>> THEN F
    ELSE LET p == Head(out)
             last == p.off + Len(p.cells)
         IN  Pwrites([cells |-> [o \in DOMAIN F.cells |->
                                   IF o >= p.off /\ o < last
                                     THEN p.cells[o - p.off + 1] ELSE F.cells[o]],
                      len |-> IF last > F.len THEN last ELSE F.len],
                     Tail(out))

Empty(size) == [cells |-> [o \in 0 .. size - 1 |-> Zero], len |-> 0]

\* Two blocks a rank: the most that the programs fill.
Init ==
    /\ asserts \in BOOLEAN /\ job \in Programs /\ garble \in Garbles
    /\ state = [r \in Rank |-> "start"]
    /\ writer = [r \in Rank |-> Writer(r)]
    /\ pc = [r \in Rank |-> Idle]
    /\ todo = job.ops
    /\ cache = Empty(2 * Ranks * Block + Buffer) /\ disk = cache
    /\ index = <<>> /\ reload = <<>>
    /\ stats = [r \in Rank |-> NotLoaded]
    /\ laid = [r \in Rank |-> {}] /\ acked = {}
    /\ ended = "no" /\ aborted = FALSE

-----------------------------------------------------------------------------
\* Put what the writer did into the file; the rank goes on with next.
Wrote(r, w, next) ==
    /\ writer' = [writer EXCEPT ![r] = [w EXCEPT !.out = <<>>]]
    /\ cache' = Pwrites(cache, w.out)
    /\ pc' = [pc EXCEPT ![r] = next]

Add(idx, key, entry) ==
    IF key \in DOMAIN idx THEN idx
    ELSE [k \in DOMAIN idx \cup {key} |-> IF k = key THEN entry ELSE idx[k]]

\* The index entry of a value, in memory or in the file.
IndexEntry(in_file, val, off) ==
    [in_file |-> in_file, val |-> IF in_file THEN <<>> ELSE val, off |-> off, len |-> Len(val)]

\* ADLB_Xpt_init up to the barrier of xlb_xpt_index_init: rank 0 writes the
\* header and flushes it.
XptInit(r) ==
    /\ ended = "no" /\ state[r] = "start"
    /\ state' = [state EXCEPT ![r] = "init"]
    /\ IF r = 0
         THEN Wrote(r, flush_buffers(xpt_header_write(writer[r])),
                    [at |-> "fsync", next |-> Idle])
         ELSE UNCHANGED <<writer, cache, pc>>
    /\ UNCHANGED <<asserts, job, garble, todo, disk, index, reload, stats,
                   laid, acked, ended, aborted>>

\* The barrier at the end of xlb_xpt_index_init.
Barrier ==
    /\ ended = "no" /\ \A r \in Rank : state[r] = "init" /\ pc[r] = Idle
    /\ state' = [r \in Rank |-> "open"]
    /\ UNCHANGED <<asserts, job, garble, writer, pc, todo, cache, disk, index,
                   reload, stats, laid, acked, ended, aborted>>

\* Mutant of FlushNow: an entry that the index refers to is not flushed.
FlushAsked(op) == job.policy = "ALWAYS_FLUSH" \/ op.persist = "PERSIST_FLUSH"

\* An entry of the index is a reference to the file if the value is big.
InFile(op) == op.add /\ Len(op.val) > MaxIndexVal
Persisted(op) == op.persist # "NO_PERSIST" \/ InFile(op)
FlushNow(op) ==
    \/ job.policy = "ALWAYS_FLUSH" \/ op.persist = "PERSIST_FLUSH"
    \/ InFile(op)

\* ADLB_Xpt_write up to the fsync, or up to the index.
XptWrite(r) ==
    LET op == Head(todo[r])
        Rest(off) == [at |-> "index", op |-> op, off |-> off]
        InFirst(w) == \/ w.blk = first_block(r) /\ w.pos + Len(w.buf) <= Block
                      \/ /\ w.blk = next_block(first_block(r))
                         /\ w.pos = 0 /\ w.buf = <<>>
    IN  /\ ended = "no" /\ state[r] = "open" /\ pc[r] = Idle
        /\ todo[r] # <<>>
        /\ todo' = [todo EXCEPT ![r] = Tail(@)]
        /\ IF ~Persisted(op)
             THEN Wrote(r, writer[r], Rest(0)) /\ UNCHANGED laid
             ELSE \E put \in {write_entry(writer[r], Body(op.key, op.val))} :
                  /\ CASE put.w.bad -> Wrote(r, put.w, Dead)
                       [] ~put.w.bad /\ FlushNow(op) ->
                            Wrote(r, flush_buffers(put.w),
                                  [at |-> "fsync", next |-> Rest(put.off)])
                       [] OTHER -> Wrote(r, put.w, Rest(put.off))
                  /\ laid' = IF InFirst(put.w) /\ ~put.w.bad
                               THEN [laid EXCEPT ![r] = @ \cup {op}] ELSE laid
        /\ UNCHANGED <<asserts, job, garble, state, disk, index, reload,
                       stats, acked, ended, aborted>>

\* Mutant of Fsync: nothing is forced to disk.
FsyncNothing(r) ==
    /\ ended = "no" /\ pc[r].at = "fsync"
    /\ pc' = [pc EXCEPT ![r] = pc[r].next]
    /\ acked' = acked \cup laid[r]
    /\ UNCHANGED <<asserts, job, garble, state, writer, todo, cache, disk,
                   index, reload, stats, laid, ended, aborted>>

\* The fsync of xlb_xpt_flush: every page of the file, whoever wrote it.
Fsync(r) ==
    /\ ended = "no" /\ pc[r].at = "fsync"
    /\ disk' = cache
    /\ pc' = [pc EXCEPT ![r] = pc[r].next]
    /\ acked' = acked \cup laid[r]
    /\ UNCHANGED <<asserts, job, garble, state, writer, todo, cache, index,
                   reload, stats, laid, ended, aborted>>

\* xpt_check_flush: with the periodic policy, a flush if the time has come.
CheckFlush(r) ==
    \/ Wrote(r, writer[r], Idle)
    \/ /\ job.policy = "PERIODIC_FLUSH" /\ writer[r].buf # <<>>
       /\ Wrote(r, flush_buffers(writer[r]), [at |-> "fsync", next |-> Idle])

\* The rest of ADLB_Xpt_write: the index, where the first entry of a key stays
\* (ADLB_REJECTED is accepted), and the periodic flush.
XptIndex(r) ==
    LET op == pc[r].op
        entry == IndexEntry(InFile(op), op.val, pc[r].off)
    IN  /\ ended = "no" /\ pc[r].at = "index"
        /\ index' = IF op.add THEN Add(index, op.key, entry) ELSE index
        /\ CheckFlush(r)
        /\ UNCHANGED <<asserts, job, garble, state, todo, disk, reload, stats,
                       laid, acked, ended, aborted>>

\* ADLB_Xpt_lookup changes nothing but for its periodic flush.
XptLookup(r) ==
    /\ ended = "no" /\ state[r] = "open" /\ pc[r] = Idle
    /\ job.policy = "PERIODIC_FLUSH" /\ writer[r].buf # <<>>
    /\ CheckFlush(r)
    /\ UNCHANGED <<asserts, job, garble, state, todo, disk, index, reload,
                   stats, laid, acked, ended, aborted>>

\* ADLB_Xpt_finalize.
XptFinalize(r) ==
    /\ ended = "no" /\ state[r] = "open" /\ pc[r] = Idle
    /\ todo[r] = <<>>
    /\ state' = [state EXCEPT ![r] = "closed"]
    /\ \E w \in {write_close(writer[r])} :
         IF w.bad THEN Wrote(r, w, Dead)
         ELSE Wrote(r, flush_buffers(w), [at |-> "fsync", next |-> Idle])
    /\ UNCHANGED <<asserts, job, garble, todo, disk, index, reload, stats,
                   laid, acked, ended, aborted>>

-----------------------------------------------------------------------------
Pages == {o \div Page : o \in {x \in DOMAIN cache.cells : cache.cells[x] # disk.cells[x]}}

\* The file that a crash leaves: the pages of kept are found as they were in
\* memory, the other ones as they were on disk.
Survived(kept, len) ==
    [cells |-> [o \in DOMAIN cache.cells |->
                  IF o >= len THEN Zero
                  ELSE IF o \div Page \in kept THEN cache.cells[o] ELSE disk.cells[o]],
     len |-> len]

\* The next job starts with an empty index and reads the file.
NextJob(F, how) ==
    /\ cache' = F /\ disk' = F /\ ended' = how
    /\ index' = <<>>
    /\ reload' = [l \in 0 .. Loaders - 1 |-> l]
    /\ writer' = [r \in Rank |-> Writer(r)]
    /\ pc' = [r \in Rank |-> Idle]
    /\ UNCHANGED <<asserts, job, garble, state, todo, stats, laid, acked,
                   aborted>>

\* The job is killed, or the machine goes down.
Crash ==
    /\ ended = "no"
    /\ \E kept \in SUBSET Pages, len \in {disk.len, cache.len} :
          NextJob(Survived(kept, len), "crash")

Finish ==
    /\ ended = "no"
    /\ \A r \in Rank : state[r] = "closed" /\ pc[r] = Idle
    /\ NextJob(cache, "clean")

\* xpt_reload_rank from a position on: [rc, valid, invalid, index].
RECURSIVE LoadFrom(_, _)
LoadFrom(st, acc) ==
    LET Added(key, val, off) ==
            [acc EXCEPT !.valid = @ + 1,
                        !.index = Add(@, key, IndexEntry(Len(val) > MaxIndexVal, val, off))]
        Loaded(body, off) ==
            Added(body[1][2], [i \in 1 .. Len(body) - 1 |-> body[i + 1][2]], off)
        On(r) ==
            CASE r.rc = "DONE" -> [acc EXCEPT !.rc = "SUCCESS"]
              [] r.rc = "SUCCESS" -> LoadFrom(r.st, Loaded(r.got[1], r.got[2]))
              [] r.rc = "NOTHING" -> LoadFrom(r.st, [acc EXCEPT !.invalid = @ + 1])
              [] OTHER -> [acc EXCEPT !.rc = r.rc, !.invalid = @ + 1]
    IN  On(xlb_xpt_read(cache, st, garble))

xpt_reload_rank(rank) ==
    LET From(sel) ==
            LET none == [rc |-> sel.rc, valid |-> 0, invalid |-> 0, index |-> index]
            IN  IF sel.rc = "SUCCESS" THEN LoadFrom(sel.st, none) ELSE none
    IN  From(xlb_xpt_read_select(cache, rank))

\* ADLB_Xpt_reload of a loader, one rank of the file at a time.  A file that
\* cannot be opened is an error, an error in a rank is not; a failed assertion
\* ends the job.
XptReload(l) ==
    /\ ended # "no" /\ ~aborted /\ reload[l] < Ranks
    /\ IF ~OpenRead(cache)
         THEN /\ reload' = [reload EXCEPT ![l] = Ranks]
              /\ UNCHANGED <<index, stats, aborted>>
         ELSE \E res \in {xpt_reload_rank(reload[l])} :
              /\ reload' = [reload EXCEPT ![l] = @ + Loaders]
              /\ index' = res.index
              /\ stats' = [stats EXCEPT ![reload[l]] =
                             [valid |-> res.valid, invalid |-> res.invalid]]
              /\ aborted' = (res.rc = "ABORT")
    /\ UNCHANGED <<asserts, job, garble, state, writer, pc, todo, cache, disk,
                   laid, acked, ended>>

Next ==
    \/ \E r \in Rank : \/ XptInit(r) \/ XptWrite(r) \/ Fsync(r) \/ XptIndex(r)
                       \/ XptLookup(r) \/ XptFinalize(r)
    \/ Barrier \/ Crash \/ Finish
    \/ \E l \in DOMAIN reload : XptReload(l)

Spec == Init /\ [][Next]_vars

-----------------------------------------------------------------------------
Reloaded == ended # "no" /\ (aborted \/ \A l \in DOMAIN reload : reload[l] >= Ranks)

OneBlock(r) == laid[r] = {op \in ToSet(job.ops[r]) : Persisted(op)}

\* The value that ADLB_Xpt_lookup gives for a key of the index.
Lookup(key) ==
    LET e == index[key]
    IN  IF e.in_file THEN ReadVal(cache, e.off, e.len) ELSE Pieces(e.val)

\* What a flush has covered comes back: after any crash, an entry that lay in
\* the first block of its rank when a flush of that rank ended is in the index
\* once the loaders are through (xlb_xpt_flush, xpt_reload_rank), whatever
\* else was half written, by that rank or by another.  Only a reload that an
\* assertion ends, in a build that has them, may leave entries out.
Recovered == Reloaded /\ ~aborted => \A op \in acked : op.key \in DOMAIN index

\* A reload goes on past torn and partly written entries (adlb-xpt.h).
IgnoresTorn == ~aborted

\* A lookup never gives a value that was not written for its key: neither from
\* the index nor, for a big value, from the file being written or reloaded; a
\* torn record is never taken for an entry (CRC, xlb_xpt_read).
LookupRight ==
    \A key \in DOMAIN index :
        \E op \in Ops(job) : op.key = key /\ Pieces(op.val) = Lookup(key)

\* The last record in a block of a rank ends where the block does.
Fills(blk) ==
    /\ cache.cells[blk * Block + Block - 1][1] = "val"
    /\ cache.cells[next_block(blk) * Block + 1][1] # "val"

\* What is left of the first block after the last record is a sync marker and
\* a CRC long, and the file goes on: there is no room for an end mark, and the
\* reader does not get as far as the next block before it wants the length.
Tight(r) ==
    LET rest == r * Block + Block - (EofRecBytes - 1)
    IN  /\ cache.cells[rest - 1][1] = "val" /\ cache.cells[rest] = Zero
        /\ cache.len > rest

\* After a job that closed its files the reload finds the end of each rank: by
\* the mark, where it fits the rest of the block, by the next block, which is
\* empty, where it does not (xlb_xpt_write_close).  An assertion can only end
\* it where records fill a block; otherwise every entry of a rank that stayed
\* in its first block is counted as valid and nothing as invalid, but for the
\* one size of the rest of the block that Tight describes.
CleanClose ==
    ended = "clean" /\ Reloaded =>
        IF aborted THEN asserts /\ \E r \in Rank : Fills(first_block(r))
        ELSE \A r \in Rank :
               OneBlock(r) /\ ~Tight(r) =>
                 stats[r] = [valid |-> Cardinality(laid[r]), invalid |-> 0]

=============================================================================
