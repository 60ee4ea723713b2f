--------------------------- MODULE AivmStringArena ---------------------------
(***************************************************************************)
(* The VM's string arena (aivm_vm.c): a fixed array that string opcodes    *)
(* append to, with interning, limits that grow, and a compaction that is   *)
(* tried before a limit grows.                                             *)
(*                                                                         *)
(* The compaction copies the live strings into an array on the C stack,    *)
(* points the live slots into that array and copies it back over the       *)
(* arena; the slots keep their pointers into the dead frame.  A read       *)
(* through such a pointer is undefined, and so is what the VM does after   *)
(* it: the status is then "spoilt".                                        *)
(*                                                                         *)
(* Characters are numbers; Lead and Cont together are a two-byte rune.     *)
(* Offsets count from 0.                                                   *)
(***************************************************************************)
EXTENDS Integers, Sequences, FiniteSetsExt

CONSTANTS
  RootOrder,        \* the slots that may hold strings, in the order compaction visits them
  NodeKind, NodeId, \* those of them that are fields of a node
  StringCapacity, InitialLimit, GrowthStep,
  Texts,            \* constants of the program and results of syscalls
  Starts, Lengths,  \* integer operands
  IntMax            \* largest int64_t

Slots == Range(RootOrder)
Nul == 0
Plain == 1
Lead == 2
Cont == 3
Newline == 4
Backslash == 5

ASSUME StringAssumption ==
  /\ RootOrder \in Seq(Slots)
  /\ {NodeKind, NodeId} \subseteq Slots /\ NodeKind # NodeId
  /\ {StringCapacity, GrowthStep} \subseteq Nat \ {0}
  /\ InitialLimit \in 0 .. StringCapacity
  /\ Texts \subseteq Seq(1 .. 5)
  /\ IntMax \in Nat /\ Starts \cup Lengths \subseteq -IntMax - 1 .. IntMax

VARIABLES
  mem,      \* string_arena
  used,     \* string_arena_used
  limit,    \* string_arena_limit
  slot,     \* the string each root slot holds
  status,   \* ok, pressure (no memory; TO_STRING reports it as a type error), spoilt
  asked     \* ghost: the bytes the last allocation asked for

stringVars == <<mem, used, limit, slot, status, asked>>

\* A string: where its pointer points to, and as a ghost what its text should be.
NoString == [region |-> "none", at |-> 0, lit |-> <<>>, want |-> <<>>]
Dangling == [NoString EXCEPT !.region = "frame"]
InProgram(text) == [NoString EXCEPT !.region = "program", !.lit = text, !.want = text]

StringInit ==
  /\ mem = [k \in 1 .. StringCapacity |-> Nul]
  /\ used = 0 /\ limit = InitialLimit
  /\ slot = [s \in Slots |-> NoString]
  /\ status = "ok" /\ asked = 0

-----------------------------------------------------------------------------
(* The arena h: the variables above, whether it was compacted, and the      *)
(* offset of the string that was made or found last.                        *)

Now == [mem |-> mem, used |-> used, limit |-> limit, slot |-> slot, status |-> status,
        asked |-> asked, compacted |-> FALSE, out |-> 0]
Popped(popped) == [Now EXCEPT !.slot = [s \in Slots |-> IF s \in popped THEN NoString ELSE slot[s]]]

\* The text at an offset, up to the next NUL.
TextAt(h, k) ==
  LET ends == {j \in k .. StringCapacity - 1 : h.mem[j + 1] = Nul}
  IN  SubSeq(h.mem, k + 1, IF ends = {} THEN StringCapacity ELSE Min(ends))

\* pointer_in_string_arena
InArena(h, p) == p.region = "arena" /\ p.at < h.used

Text(h, p) == IF p.region = "program" THEN p.lit ELSE TextAt(h, p.at)

\* Where the walks over the arena stop to compare.
Entries(h) == {k \in 0 .. h.used - 1 : k = 0 \/ h.mem[k] = Nul}

-----------------------------------------------------------------------------
(* Allocation.                                                              *)

\* compact_lookup_or_copy_string, for the first live slots: no text twice.
LiveTexts(h) ==
  LET texts[k \in 0 .. Len(RootOrder)] ==
        IF k = 0 THEN <<>>
        ELSE LET before == texts[k - 1]
                 p      == h.slot[RootOrder[k]]
             IN  IF InArena(h, p) /\ TextAt(h, p.at) \notin Range(before)
                 THEN Append(before, TextAt(h, p.at)) ELSE before
  IN  texts

\* new_arena, after each of the texts.
NewArena(live) ==
  LET cells[k \in 0 .. Len(live)] == IF k = 0 THEN <<>> ELSE cells[k - 1] \o Append(live[k], Nul)
  IN  cells

\* compact_relocate_string_ptr: the slot points into new_arena.
Relocated(h, p) == IF InArena(h, p) THEN Dangling ELSE p

\* compact_string_arena
Compact(h) ==
  LET live  == LiveTexts(h)[Len(RootOrder)]
      cells == NewArena(live)[Len(live)]
  IN  IF h.used = 0 THEN h
      ELSE IF Len(cells) > StringCapacity THEN [h EXCEPT !.status = "pressure"]
      ELSE [h EXCEPT !.mem = [k \in 1 .. StringCapacity |->
                                IF k <= Len(cells) THEN cells[k]
                                ELSE IF k = Len(cells) + 1 THEN Nul ELSE h.mem[k]],
                     !.used = Len(cells), !.compacted = TRUE,
                     !.slot = [s \in Slots |-> Relocated(h, h.slot[s])]]

\* grow_limit, until the bytes fit or the array is full.
GrownLimit(current, needed) ==
  LET steps == {Min({current + k * GrowthStep, StringCapacity}) : k \in 0 .. StringCapacity}
      fits  == {l \in steps : needed <= l}
  IN  IF fits = {} THEN StringCapacity ELSE Min(fits)

AllocGrowing(h, size) ==    \* mutant: grows the limit but never compacts
  LET needed == h.used + size
      grown  == GrownLimit(h.limit, needed)
  IN  IF needed > grown THEN [h EXCEPT !.status = "pressure", !.asked = size]
      ELSE [h EXCEPT !.used = needed, !.limit = grown, !.out = h.used, !.asked = size]
\* arena_alloc
Alloc(h, size) ==
  LET c      == IF h.used + size > h.limit THEN Compact(h) ELSE h
      needed == c.used + size
      grown  == GrownLimit(c.limit, needed)
  IN  IF c.status # "ok" THEN [c EXCEPT !.asked = size]
      ELSE IF needed > grown THEN [c EXCEPT !.status = "pressure", !.limit = grown, !.asked = size]
      ELSE [c EXCEPT !.used = needed, !.limit = grown, !.out = c.used, !.asked = size]

-----------------------------------------------------------------------------
(* Copying.  What is copied is a sequence of characters, and of cells of    *)
(* the arena that are read only when their turn comes.                      *)

Chars(text) == [k \in 1 .. Len(text) |-> [cell |-> 0, ch |-> text[k]]]
Cells(from, n) == [k \in 1 .. n |-> [cell |-> from + k, ch |-> Nul]]

\* The text is read through the pointer when it is copied.
Direct(h, p, text, from) == IF p.region = "arena" THEN Cells(p.at + from, Len(text)) ELSE Chars(text)
\* snapshot_arena_backed_string: a text in the arena is saved first.
Snapshot(h, p, text, from) ==
  IF p.region # "arena" \/ InArena(h, p) THEN Chars(text) ELSE Cells(p.at + from, Len(text))

\* A cell is read when its turn comes.
CellOf(m, items, k) ==
  IF k > Len(items) THEN Nul
  ELSE IF items[k].cell = 0 THEN items[k].ch
  ELSE IF items[k].cell <= StringCapacity THEN m[items[k].cell] ELSE Nul
\* The arena after each of the items, and after the NUL behind them.
Writing(h, items) ==
  LET after[k \in 0 .. Len(items) + 1] ==
        IF k = 0 THEN h.mem
        ELSE LET m == after[k - 1] IN [m EXCEPT ![h.out + k] = CellOf(m, items, k)]
  IN  after
Written(h, items) == [h EXCEPT !.mem = Writing(h, items)[Len(items) + 1]]

FilledShort(h, items) ==    \* mutant: no room is asked for the NUL
  LET a == Alloc(h, Len(items))
  IN  IF a.status # "ok" THEN a ELSE Written(a, SubSeq(items, 1, Min({Len(items), StringCapacity - a.out - 1})))
\* Space for the items and a NUL, filled.
Filled(h, items) ==
  LET a == Alloc(h, Len(items) + 1) IN IF a.status # "ok" THEN a ELSE Written(a, items)

\* The first entry with this text, or a new one.
Interned(h, text, items) ==
  LET found == {k \in Entries(h) : TextAt(h, k) = text}
  IN  IF found # {} THEN [h EXCEPT !.out = Min(found)] ELSE Filled(h, items)

\* copy_string_range_to_arena: the n characters of p from a position on.
CopyRange(h, p, text, from) == Interned(h, text, Snapshot(h, p, text, from))

\* copy_string_to_arena
CopyString(h, p, text) ==
  IF InArena(h, p) THEN [h EXCEPT !.out = p.at] ELSE CopyRange(h, p, text, 0)

\* copy_string_splice_to_arena: what is before lo and from hi on.
CopySplice(h, p, text, lo, hi) ==
  LET prefix == SubSeq(text, 1, lo)
      suffix == SubSeq(text, hi + 1, Len(text))
  IN  Interned(h, prefix \o suffix, Snapshot(h, p, prefix, 0) \o Snapshot(h, p, suffix, hi))

-----------------------------------------------------------------------------
(* Runes.                                                                   *)

\* utf8_next_index
NextIndex(text, i) ==
  IF i >= Len(text) THEN i
  ELSE IF text[i + 1] = Lead /\ i + 1 < Len(text) /\ text[i + 2] = Cont THEN i + 2
  ELSE i + 1

\* utf8_byte_offset_for_rune
ByteOffset(text, rune) ==
  LET offset[k \in 0 .. rune] == IF k = 0 THEN 0 ELSE NextIndex(text, offset[k - 1]) IN offset[rune]

\* utf8_rune_count
RuneCount(text) == Min({k \in 0 .. Len(text) : ByteOffset(text, k) = Len(text)})

\* clamp_rune_index
ClampRune(value, max) == IF value <= 0 THEN 0 ELSE IF value >= max THEN max ELSE value

\* start + length, in the width of int64_t.
Wrapped(n) == ((n + IntMax + 1) % (2 * (IntMax + 1))) - (IntMax + 1)

\* The bytes a range of runes stands for: first and one behind last.
RuneRange(text, start, length) ==
  LET count == RuneCount(text)
      lo    == ClampRune(start, count)
      hi    == ClampRune(Wrapped(start + length), count)
  IN  [lo |-> ByteOffset(text, lo), hi |-> ByteOffset(text, IF hi < lo THEN lo ELSE hi)]

-----------------------------------------------------------------------------
(* What the operations promise, by runes: reference definitions.            *)

\* The rune that the k-th character belongs to, counted from 0.
RuneOf(text, k) ==
  Cardinality({j \in 1 .. k : ~ (j > 1 /\ text[j] = Cont /\ text[j - 1] = Lead)}) - 1
Kept(text, keep) ==
  LET kept[k \in 0 .. Len(text)] ==
        IF k = 0 THEN <<>> ELSE IF k \in keep THEN Append(kept[k - 1], text[k]) ELSE kept[k - 1]
  IN  kept[Len(text)]
InRange(text, start, length) == {k \in 1 .. Len(text) : RuneOf(text, k) \in start .. start + length - 1}

EscapeOf(ch) ==
  CASE ch = Newline -> <<Backslash, Plain>> [] ch = Backslash -> <<Backslash, Backslash>> [] OTHER -> <<ch>>
Escaped(text) ==
  LET escaped[k \in 0 .. Len(text)] == IF k = 0 THEN <<>> ELSE escaped[k - 1] \o EscapeOf(text[k])
  IN  escaped[Len(text)]

-----------------------------------------------------------------------------
(* Opcodes.  An opcode pops its operands, so they are no longer roots, and  *)
(* leaves its result in the slot of the first.                              *)

Becomes(h) ==
  /\ mem' = h.mem /\ used' = h.used /\ limit' = h.limit /\ slot' = h.slot
  /\ status' = h.status /\ asked' = h.asked

\* A string is pushed, unless the opcode failed or read what was no longer there.
Made(h, want) == [NoString EXCEPT !.region = "arena", !.at = h.out, !.want = want]
Pushed(h, s, want, intact) ==
  Becomes(IF h.status # "ok" THEN h
          ELSE IF ~ intact THEN [h EXCEPT !.status = "spoilt"]
          ELSE [h EXCEPT !.slot[s] = Made(h, want)])

\* A text is still there when it is copied: it is not in the arena, or the arena was not compacted.
Intact(p, h) == p.region = "program" \/ ~ h.compacted

Holds(s) == status = "ok" /\ slot[s].region # "none"
Readable(s) == status = "ok" /\ slot[s].region \in {"program", "arena"}
Free(s) == status = "ok" /\ slot[s].region = "none" /\ s \notin {NodeKind, NodeId}
OnStack(s) == s \notin {NodeKind, NodeId}

\* Any opcode that reads a dangling string.
ReadDangling(s) ==
  /\ Holds(s) /\ slot[s].region = "frame"
  /\ Becomes([Now EXCEPT !.status = "spoilt"])

\* CONST
PushConst(s, text) == Free(s) /\ Becomes([Now EXCEPT !.slot[s] = InProgram(text)])

\* materialize_syscall_result, and TO_STRING of an int, a bool or null.
Materialize(s, text) ==
  Free(s) /\ \E h \in {CopyString(Now, InProgram(text), text)} : Pushed(h, s, text, TRUE)

\* STORE_LOCAL, LOAD_LOCAL, PAR_FORK, a task result: a pointer is copied or dropped.
CopyPointer(from, to) == Holds(from) /\ Free(to) /\ Becomes([Now EXCEPT !.slot[to] = slot[from]])
Drop(s) ==
  Holds(s) /\ Becomes(Popped(IF OnStack(s) THEN {s} ELSE {NodeKind, NodeId}))

\* STR_CONCAT
StrConcat(a, b) ==
  /\ Readable(a) /\ Readable(b) /\ a # b /\ OnStack(a) /\ OnStack(b)
  /\ \E left \in {Text(Now, slot[a])}, right \in {Text(Now, slot[b])} :
       \E h \in {Filled(Popped({a, b}), Direct(Now, slot[a], left, 0) \o Direct(Now, slot[b], right, 0))} :
         Pushed(h, a, slot[a].want \o slot[b].want, Intact(slot[a], h) /\ Intact(slot[b], h))

\* STR_ESCAPE: push_escaped_string reads the text again after the allocation.
StrEscape(a) ==
  /\ Readable(a) /\ OnStack(a)
  /\ \E h \in {Filled(Popped({a}), Chars(Escaped(Text(Now, slot[a]))))} :
       Pushed(h, a, Escaped(slot[a].want), Intact(slot[a], h))

\* TO_STRING of a string, NODE_KIND, NODE_ID and ATTR_*: push_string_copy.
CopyOf(a, s) ==
  /\ Readable(a) /\ OnStack(s) /\ (s = a \/ Free(s))
  /\ \E h \in {CopyString(Popped({s}), slot[a], Text(Now, slot[a]))} : Pushed(h, s, slot[a].want, TRUE)

\* STR_SUBSTRING.  A sum that overflows is undefined too.
StrSubstring(a, start, length) ==
  /\ Readable(a) /\ OnStack(a)
  /\ \E text \in {Text(Now, slot[a])} : \E range \in {RuneRange(text, start, length)} :
       \E h \in {IF length <= 0 THEN CopyString(Popped({a}), InProgram(<<>>), <<>>)
                 ELSE CopyRange(Popped({a}), slot[a], SubSeq(text, range.lo + 1, range.hi), range.lo)} :
         Pushed(h, a, Kept(slot[a].want, InRange(slot[a].want, start, length)),
                length <= 0 \/ start + length <= IntMax)

\* STR_REMOVE
StrRemove(a, start, length) ==
  /\ Readable(a) /\ OnStack(a)
  /\ \E text \in {Text(Now, slot[a])} : \E range \in {RuneRange(text, start, length)} :
       \E h \in {IF length <= 0 THEN CopyString(Popped({a}), slot[a], text)
                 ELSE CopySplice(Popped({a}), slot[a], text, range.lo, range.hi)} :
         Pushed(h, a, Kept(slot[a].want, 1 .. Len(slot[a].want) \ InRange(slot[a].want, start, length)),
                length <= 0 \/ start + length <= IntMax)

\* create_node_record copies kind and id; until both are there the node is no
\* root, so a compaction for the id leaves the kind behind.
MakeNode(a, b) ==
  /\ Readable(a) /\ Readable(b) /\ a # b /\ OnStack(a) /\ OnStack(b)
  /\ slot[NodeKind].region = "none"
  /\ \E h \in {CopyString(Popped({a, b}), slot[a], Text(Now, slot[a]))} :
       \E g \in {CopyString([h EXCEPT !.compacted = FALSE], slot[b], Text(h, slot[b]))} :
         Becomes(IF h.status # "ok" THEN h
                 ELSE IF ~ Intact(slot[b], h) THEN [h EXCEPT !.status = "spoilt"]
                 ELSE IF g.status # "ok" THEN g
                 ELSE [g EXCEPT !.slot[NodeKind] = IF g.compacted THEN Dangling ELSE Made(h, slot[a].want),
                                !.slot[NodeId] = Made(g, slot[b].want)])

\* aivm_reset_state
Reset ==
  /\ status # "ok"
  /\ Becomes([Now EXCEPT !.mem[1] = Nul, !.used = 0, !.limit = InitialLimit, !.asked = 0,
                         !.status = "ok", !.slot = [s \in Slots |-> NoString]])

StringNext ==
  \/ \E s \in Slots, text \in Texts : PushConst(s, text) \/ Materialize(s, text)
  \/ \E s \in Slots : Drop(s) \/ StrEscape(s) \/ ReadDangling(s)
  \/ \E s, t \in Slots : CopyPointer(s, t) \/ StrConcat(s, t) \/ CopyOf(s, t) \/ MakeNode(s, t)
  \/ \E s \in Slots, start \in Starts, length \in Lengths : StrSubstring(s, start, length) \/ StrRemove(s, start, length)
  \/ Reset

StringSpec == StringInit /\ [][StringNext]_stringVars

-----------------------------------------------------------------------------
(* Properties.                                                              *)

\* A string reads as what the program computed, from the opcode that made it to
\* the next compaction: nothing that is appended or interned meanwhile touches
\* it, and an opcode that saves its operands is right even when making its own
\* result compacts the arena under them.
StringsReadRight ==
  status = "ok" => \A s \in Slots : Readable(s) => Text(Now, slot[s]) = slot[s].want

\* The arena is a row of terminated strings within its array, so that the walks
\* of lookup and compaction, and the reads of the live strings, stay inside.
StringsEndInside ==
  /\ used <= limit /\ limit <= StringCapacity
  /\ status = "ok" /\ used > 0 => mem[used] = Nul
  /\ status = "ok" => \A s \in Slots : slot[s].region = "arena" => slot[s].at + Len(slot[s].want) < used

\* The program fails for lack of string memory only when its live strings, each
\* text once, and the new one do not fit the array.
Bytes(texts) == Cardinality(UNION {{t} \X (0 .. Len(t)) : t \in texts})
StringPressureMeansFull ==
  [][status = "ok" /\ status' = "pressure" =>
       Bytes({TextAt(Now, slot[s].at) : s \in {q \in Slots : InArena(Now, slot[q]) /\ slot'[q].region # "none"}})
         + asked' > StringCapacity]_stringVars

\* The text of each live string lies in the program or in the VM's own arena.
StringsAreOwned == \A s \in Slots : slot[s].region # "frame"
=============================================================================
