------------------------------ MODULE XptFile ------------------------------
(***************************************************************************)
(* The checkpoint file (xpt_file.c): all ranks write to one file, which is  *)
(* dealt out to them in blocks, round robin.  A block starts with a magic   *)
(* number, the first one of the file has a header after it, and the records *)
(* of a rank are laid through its blocks one after the other.               *)
(*                                                                          *)
(* The file is a function from offsets to cells.  A cell stands for a field *)
(* that one call writes (a 32-bit number, an encoded length, a key with its *)
(* length) or for a piece of a value.  A CRC is taken to tell every two     *)
(* records apart.  The operators below are the writer and the reader; the   *)
(* processes that use them are in Checkpoint.                               *)
(***************************************************************************)
EXTENDS Integers, Sequences

CONSTANTS Ranks,    \* layout.size: ranks are 0 .. Ranks-1
          Block,    \* XLB_XPT_BLOCK_SIZE
          Buffer,   \* XLB_XPT_BUFFER_SIZE
          ReadBuf,  \* the buffer of ADLB_Xpt_reload
          Wrap,     \* stands for 2^32: a xpt_block_pos_t is less
          Garbles   \* what a cell that is no length may decode to: [n, minimal]

ASSUME XptFileAssumption ==
    /\ Ranks \in Nat \ {0} /\ Buffer \in Nat \ {0} /\ ReadBuf \in Nat
    /\ Block \in Nat /\ Block > 4 /\ Block % Buffer = 0
    /\ Wrap \in Nat /\ Wrap > 2 * Block
    /\ Garbles \subseteq [n : Int, minimal : BOOLEAN]

VARIABLE asserts    \* whether the build has assertions (no NDEBUG); never changes

Zero == <<"zero">>           \* a byte of a hole; also the encoded length 0
Junk == <<"junk">>           \* what a buffer holds that was not filled
Magic == <<"magic">>
Sync == <<"sync">>           \* xpt_sync_marker
Num(n) == IF n = 0 THEN Zero ELSE <<"num", n>>
Crc(cells) == <<"crc", cells>>

first_block(rank) == rank
next_block(blk) == blk + Ranks

\* The body of the record of a key and a value, and the record.  A record
\* with no body marks the end.
Pieces(val) == [i \in DOMAIN val |-> <<"val", val[i]>>]
Body(key, val) == <<<<"key", key>>>> \o Pieces(val)
Entry(body) == <<Sync, Crc(<<Num(Len(body))>> \o body), Num(Len(body))>> \o body
EofRecBytes == Len(Entry(<<>>))

-----------------------------------------------------------------------------
(***************************************************************************)
(* The writer.  A state of it is [blk, pos, buf, out, bad]: where the       *)
(* buffer goes, what is in it, the pwrites so far, and whether the code ran *)
(* into an assertion or past its buffer.                                    *)
(***************************************************************************)
Writer(rank) == [blk |-> first_block(rank), pos |-> 0, buf |-> <<>>,
                 out |-> <<>>, bad |-> FALSE]

\* The position add bytes from p.  What is left of the block is taken after
\* the position was set to 0, so beyond the end it is off by the old position
\* and wraps.
RECURSIVE file_pos_add(_, _)
file_pos_add(p, add) ==
    IF p.pos + add >= Block
      THEN file_pos_add([blk |-> next_block(p.blk), pos |-> 0], add - Block)
      ELSE [p EXCEPT !.pos = (p.pos + add) % Wrap]

\* The position after what is buffered.
FilePosAfter(w) == file_pos_add([blk |-> w.blk, pos |-> w.pos], Len(w.buf))

RECURSIVE flush_buffers(_)
flush_buffers(w) ==
    LET left == Block - w.pos
        size == IF left < Len(w.buf) THEN left ELSE Len(w.buf)
    IN  IF w.buf = <<>> THEN w
        ELSE flush_buffers(
               [w EXCEPT !.buf = SubSeq(@, size + 1, Len(@)),
                         !.out = Append(@, [off |-> w.blk * Block + w.pos,
                                            cells |-> SubSeq(w.buf, 1, size)]),
                         !.blk = IF size = left THEN next_block(@) ELSE @,
                         !.pos = IF size = left THEN 0 ELSE @ + size])

\* The loop of bufwrite.
RECURSIVE BufLoop(_, _)
BufLoop(w, data) ==
    LET bufferLeft == Buffer - Len(w.buf)
        room == IF bufferLeft < Len(data) THEN bufferLeft ELSE Len(data)
        Full(copied) == IF Len(copied.buf) = Buffer THEN flush_buffers(copied) ELSE copied
        Copy(size, append_magic_num) ==
            IF size > room THEN [w EXCEPT !.bad = TRUE]   \* memcpy past the buffer
            ELSE BufLoop([Full([w EXCEPT !.buf = @ \o SubSeq(data, 1, size)])
                            EXCEPT !.buf = @ \o append_magic_num],
                         SubSeq(data, size + 1, Len(data)))
        Fit(after) == IF (after.pos + room) % Wrap > Block
                        THEN Copy((Block - after.pos) % Wrap, <<Magic>>)
                        ELSE Copy(room, <<>>)
    IN  IF data = <<>> \/ w.bad THEN w
        ELSE IF bufferLeft = 0 THEN BufLoop(flush_buffers(w), data)
        ELSE Fit(FilePosAfter(w))

bufwrite(w, data) ==
    BufLoop(IF w.pos = 0 /\ w.buf = <<>> THEN [w EXCEPT !.buf = <<Magic>>] ELSE w,
            data)

xpt_header_write(w) == bufwrite(bufwrite(w, <<Num(Block)>>), <<Num(Ranks)>>)

\* write_entry for a body: each field is one bufwrite, the value is one.
\* Returns the writer and the offset noted for the value.
write_entry(w, body) ==
    LET entry == Entry(body)
        At(p) == p.blk * Block + p.pos
        Value(w4) == [w |-> bufwrite(w4, Tail(body)), off |-> At(FilePosAfter(w4))]
        Rest(w3) == IF body = <<>> THEN [w |-> w3, off |-> 0]
                    ELSE Value(bufwrite(w3, <<Head(body)>>))
    IN  Rest(bufwrite(bufwrite(bufwrite(w, <<entry[1]>>), <<entry[2]>>), <<entry[3]>>))

\* Mutant of write_close: a mark that just fits is left out.
CloseOffByOne(w) ==
    LET Mark(pos) == IF asserts /\ pos > Block THEN [w EXCEPT !.bad = TRUE]
                     ELSE IF pos > 0 /\ (Block - pos) % Wrap > EofRecBytes
                     THEN write_entry(w, <<>>).w
                     ELSE w
    IN  Mark(FilePosAfter(w).pos)

\* What xlb_xpt_write_close does before its flush.
write_close(w) ==
    LET Mark(pos) == IF asserts /\ pos > Block THEN [w EXCEPT !.bad = TRUE]
                     ELSE IF pos > 0 /\ (Block - pos) % Wrap >= EofRecBytes
                     THEN write_entry(w, <<>>).w
                     ELSE w
    IN  Mark(FilePosAfter(w).pos)

-----------------------------------------------------------------------------
(***************************************************************************)
(* The reader.  F is the file [cells, len]; a position of the reader is     *)
(* [blk, pos, eos]; a result is [rc, st, got].                              *)
(***************************************************************************)
Offset(st) == st.blk * Block + st.pos
AtEof(F, st) == Offset(st) >= F.len
CellAt(F, st) == IF AtEof(F, st) THEN Junk ELSE F.cells[Offset(st)]

Result(rc, st, got) == [rc |-> rc, st |-> st, got |-> got]

\* xpt_header_read: past the magic number of block 0.
xpt_header_read(F, st) ==
    LET st2 == [st EXCEPT !.pos = 3]
    IN  IF F.len < 3 THEN Result("DONE", st2, <<>>)
        ELSE IF F.cells[1] = Zero \/ F.cells[2] = Zero THEN Result("ERROR", st2, <<>>)
        ELSE Result("SUCCESS", st2, <<>>)

\* xlb_xlb_xpt_open_read: whether the file can be opened.
OpenRead(F) ==
    /\ F.len > 0 /\ F.cells[0] = Magic
    /\ xpt_header_read(F, [blk |-> 0, pos |-> 1, eos |-> FALSE]).rc = "SUCCESS"

block_read_move(F, st, blk) ==
    LET start == [blk |-> blk, pos |-> 0, eos |-> st.eos]
        magic_num == CellAt(F, start)
        after == [start EXCEPT !.pos = 1]
    IN  IF AtEof(F, start) \/ magic_num = Zero
          THEN Result("DONE", [after EXCEPT !.eos = TRUE], <<>>)
        ELSE IF magic_num # Magic THEN Result("ERROR", after, <<>>)
        ELSE IF blk = 0 THEN xpt_header_read(F, [after EXCEPT !.eos = FALSE])
        ELSE Result("SUCCESS", [after EXCEPT !.eos = FALSE], <<>>)

block_read_advance(F, st) == block_read_move(F, st, next_block(st.blk))

\* The loop of blkread, a cell at a time.  At the end of the file the rest of
\* the buffer is left as it was and the call succeeds.  What is left of the
\* block is unsigned: a position beyond the block is read from as it is.
RECURSIVE BlkLoop(_, _, _, _)
BlkLoop(F, st, n, got) ==
    IF n = 0 THEN Result("SUCCESS", st, got)
    ELSE IF st.pos = Block
      THEN LET Go(adv) == IF adv.rc = "SUCCESS" THEN BlkLoop(F, adv.st, n, got) ELSE adv
           IN  Go(block_read_advance(F, st))
      ELSE BlkLoop(F, [st EXCEPT !.pos = @ + 1, !.eos = @ \/ AtEof(F, st)],
                   n - 1, Append(got, CellAt(F, st)))

blkread(F, st, n) ==
    IF asserts /\ st.pos > Block THEN Result("ABORT", st, <<>>)
    ELSE IF st.eos THEN Result("DONE", st, <<>>)
    ELSE BlkLoop(F, st, n, <<>>)

\* blkgetc, through which blkread_vint gets the length.
blkgetc(F, st) ==
    LET Get(adv) ==
            IF adv.rc # "SUCCESS" THEN adv
            ELSE IF AtEof(F, adv.st) THEN Result("DONE", [adv.st EXCEPT !.eos = TRUE], <<>>)
            ELSE Result("SUCCESS", [adv.st EXCEPT !.pos = @ + 1], <<CellAt(F, adv.st)>>)
    IN  IF st.eos THEN Result("DONE", st, <<>>)
        ELSE Get(IF st.pos >= Block THEN block_read_advance(F, st)
                 ELSE Result("SUCCESS", st, <<>>))

\* The length that a cell decodes to, negative where it cannot be one, and
\* whether that length would be encoded as it was found.
Decode(cell, garble) ==
    IF cell = Zero THEN [n |-> 0, minimal |-> TRUE]
    ELSE IF cell[1] = "num" THEN [n |-> cell[2], minimal |-> TRUE] ELSE garble

seek_file_pos(F, st, p) ==
    LET Within(moved) == IF moved.rc = "SUCCESS" THEN [moved EXCEPT !.st.pos = p.pos]
                         ELSE moved
    IN  Within(IF p.blk = st.blk THEN Result("SUCCESS", st, <<>>)
               ELSE block_read_move(F, st, p.blk))

\* Read on until a sync marker was read, or no more can be read.
RECURSIVE SeekMarker(_, _)
SeekMarker(F, st) ==
    LET Go(r) == IF r.rc = "SUCCESS" /\ r.got[1] # Sync THEN SeekMarker(F, r.st) ELSE r
    IN  Go(blkread(F, st, 1))

\* xpt_read_resync; its errors are ignored, an assertion is not.
xpt_read_resync(F, st, p) ==
    LET End(last) == Result(IF last.rc = "ABORT" THEN "ABORT" ELSE "NOTHING", last.st, <<>>)
        Seek(sought) == IF sought.rc = "SUCCESS" THEN SeekMarker(F, sought.st) ELSE sought
    IN  End(Seek(seek_file_pos(F, st, p)))

\* check_crc, for a record that does not fit the reader's buffer: the CRC of
\* the body, without its length.
check_crc(F, st, n, crc) ==
    LET Match(r) == r.rc = "SUCCESS" /\ Crc(r.got) = crc IN Match(blkread(F, st, n))

CrcMatches(crc, cells) == crc = Crc(cells)

\* The cases of xlb_xpt_read once the length is read: the CRC and the length as
\* read, and p, where a search for the next record starts.
ReadBody(F, st, n, crc, len, p) ==
    LET Checked(body) ==
            IF body.rc # "SUCCESS" THEN body
            ELSE IF ~CrcMatches(crc, <<len>> \o body.got) THEN xpt_read_resync(F, body.st, p)
            ELSE Result("SUCCESS", body.st, <<body.got, Offset(st) + 1>>)
    IN  Checked(blkread(F, st, n))

ReadRest(F, start, st, decoded, crc, len, p) ==
    LET n == decoded.n IN
    IF n < 0 THEN xpt_read_resync(F, st, p)
    ELSE IF asserts /\ ~decoded.minimal THEN Result("ABORT", st, <<>>)
    ELSE
    CASE n = 0 /\ CrcMatches(crc, <<len>>) -> Result("DONE", st, <<>>)
      [] n = 0 /\ ~CrcMatches(crc, <<len>>) -> xpt_read_resync(F, st, p)
      [] n > ReadBuf -> IF check_crc(F, st, n, crc) THEN Result("RETRY", start, <<>>)
                        ELSE xpt_read_resync(F, blkread(F, st, n).st, p)
      [] OTHER -> ReadBody(F, st, n, crc, len, p)

\* Read one record.  On success got is its body and the offset of its value.
xlb_xpt_read(F, st, garble) ==
    LET resync_pos == file_pos_add([blk |-> st.blk, pos |-> st.pos], 1)
        Length(crc, len) ==
            IF len.rc # "SUCCESS" THEN Result("ERROR", len.st, <<>>)
            ELSE ReadRest(F, st, len.st, Decode(len.got[1], garble), crc,
                          len.got[1], resync_pos)
        GotCrc(crc) == IF crc.rc # "SUCCESS" THEN crc
                       ELSE Length(crc.got[1], blkgetc(F, crc.st))
        GotSync(sync) == IF sync.rc # "SUCCESS" THEN sync
                         ELSE GotCrc(blkread(F, sync.st, 1))
    IN  IF asserts /\ st.pos >= Block THEN Result("ABORT", st, <<>>)  \* in file_pos_add
        ELSE GotSync(blkread(F, st, 1))

xlb_xpt_read_select(F, rank) ==
    block_read_move(F, [blk |-> 0, pos |-> 0, eos |-> FALSE], first_block(rank))

\* Read back a value of n cells at an offset, from the file being written or
\* from one that was reloaded; a failed read gives nothing.
ReadVal(F, off, n) ==
    LET Whole(r) == IF r.rc = "SUCCESS" /\ ~r.st.eos THEN r.got ELSE <<>>
    IN  Whole(BlkLoop(F, [blk |-> off \div Block, pos |-> off % Block, eos |-> FALSE],
                      n, <<>>))

=============================================================================
