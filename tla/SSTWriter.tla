----------------------------- MODULE SSTWriter -----------------------------
(***************************************************************************)
(* Writing one SST file: the blocks, each after its checksum, then the     *)
(* index that says where each block lies (storage/store/sst_writer.go).    *)
(*                                                                         *)
(* A key is a number and stands for its bytes; keys compare as numbers.  A *)
(* block is the sequence of its points.  The writer is a record: n is the  *)
(* position in the file, blocks what was written up to it, key and entries *)
(* the section of the index being built, sections those already flushed,   *)
(* size the bytes of the index, keyCount its keys.  Positions and sizes    *)
(* are counted in bytes, as the file does.                                 *)
(***************************************************************************)
EXTENDS Values, TimeRange, SequencesExt

CONSTANTS
    KeyLen(_),          \* the length of a key in bytes
    BlockLen(_),        \* the length of an encoded block
    MaxIndexEntries     \* 65535 in the code: a count is two bytes

NoKey == 0

HeaderSize == 5
ChecksumSize == 4
EntrySize == 28

NewSSTWriter == [n |-> 0, blocks |-> <<>>, key |-> NoKey, entries |-> <<>>,
                 sections |-> <<>>, size |-> 0, keyCount |-> 0]

\* writeHeader, only when there is something to write.
WriteHeader(w) == IF w.n = 0 THEN [w EXCEPT !.n = HeaderSize] ELSE w

\* indexEntries.Less and the sort of flush: each entry goes to its place.
ByMinTime(entries) ==
    LET place(s, e) == CHOOSE i \in 1..(Len(s) + 1) : \A j \in DOMAIN s : s[j].min <= e.min <=> j < i
        sort[n \in 0..Len(entries)] ==
            IF n = 0 THEN <<>>
            ELSE InsertAt(sort[n - 1], place(sort[n - 1], entries[n]), entries[n])
    IN  sort[Len(entries)]

\* mutant: the entries are not reset
FlushKeyKeepsEntries(w) ==
    IF w.key = NoKey \/ Len(w.entries) > MaxIndexEntries THEN w
    ELSE [w EXCEPT !.sections = Append(@, [key |-> w.key, entries |-> ByMinTime(w.entries)]),
                   !.key = NoKey]

\* directIndex.flush: one more section, unless the entries are too many to count.
FlushKey(w) ==
    IF w.key = NoKey \/ Len(w.entries) > MaxIndexEntries THEN w
    ELSE [w EXCEPT !.sections = Append(@, [key |-> w.key, entries |-> ByMinTime(w.entries)]),
                   !.key = NoKey, !.entries = <<>>]

\* The first entry of a key: its length, its bytes, the type and the count.
NewSection(w, key, e) ==
    [w EXCEPT !.key = key, !.entries = Append(@, e),
              !.size = @ + 2 + KeyLen(key) + 2 + EntrySize,
              !.keyCount = @ + 1]

\* directIndex.Add.  Keys come in order, or the code panics.
Add(w, key, e) ==
    IF w.key = NoKey THEN NewSection(w, key, e)
    ELSE IF w.key = key THEN [w EXCEPT !.entries = Append(@, e), !.size = @ + EntrySize]
    ELSE NewSection(FlushKey(w), key, e)

\* Write and WriteBlock: checksum and block, and the entry that leads to them.
WriteBlock(w0, key, block) ==
    LET w == WriteHeader(w0)
        size == ChecksumSize + BlockLen(block)
        e == [min |-> MinTime(block), max |-> MaxTime(block),
              offset |-> w.n, size |-> size]
        added == Add(w, key, e)
    IN  IF block = <<>> THEN w0
        ELSE [added EXCEPT !.blocks = Append(@, [offset |-> w.n, size |-> size, points |-> block]),
                           !.n = @ + size]

\* mutant: one entry too many
MaxBlocksExceededLate(w, key) == w.key = key /\ Len(w.entries) > MaxIndexEntries

\* What Write and WriteBlock return.
MaxBlocksExceeded(w, key) == w.key = key /\ Len(w.entries) >= MaxIndexEntries

NoValues(w) == w.keyCount = 0

\* The bytes of one section: key length and key, type and count, entries.
SectionLen(s) == 2 + KeyLen(s.key) + 3 + EntrySize * Len(s.entries)

\* The positions where the sections of the index end, the last one its length.
SectionEnds(sections) ==
    LET at[i \in 0..Len(sections)] ==
            IF i = 0 THEN 0 ELSE at[i - 1] + SectionLen(sections[i])
    IN  at

\* Each section at its position in the index.
Placed(sections) ==
    [i \in 1..Len(sections) |->
        [ofs |-> SectionEnds(sections)[i - 1], key |-> sections[i].key, entries |-> sections[i].entries]]

\* WriteIndex: the rest of the index, and the place where it begins.
WriteIndex(w) ==
    LET done == FlushKey(w) IN
    [blocks |-> done.blocks, index |-> Placed(done.sections), indexPos |-> w.n,
     indexLen |-> SectionEnds(done.sections)[Len(done.sections)]]
=============================================================================
