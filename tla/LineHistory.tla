---------------------------- MODULE LineHistory ----------------------------
(***************************************************************************)
(* The history of the line editor (src/linenoise.c) of one component, its  *)
(* blocks allocated by salloc.c from the same memory as those of the Lua   *)
(* program.  All of it runs in the main program: a call of the editor, a   *)
(* key in linenoisePrompt and an allocation of the program are each one    *)
(* step, taken with the keys that edit the line before it, any line being  *)
(* their result.  A line saved holds no newline.                           *)
(***************************************************************************)
EXTENDS Salloc, Sequences

CONSTANTS
  Empty, Lines, LongLines,  \* the empty line, the others, the long ones of them
  Pointers,                 \* the content of the array of a history
  HistoryMaxLen,            \* history_max_lengths[ id ]
  Thing, ThingSizes         \* what the Lua program stores, and in blocks of how many bytes

ASSUME HistoryAssumption ==
  /\ HistoryMaxLen \in Nat \ {0} /\ LongLines \subseteq Lines /\ ThingSizes \subseteq Nat
  /\ Lines \union {Empty, Pointers, Thing} \subseteq Words

VARIABLES
  mem,         \* RAM
  array,       \* histories[ id ]: its address
  entries,     \* the pointers in it, histories[ id ][ 0 .. ]
  length,      \* history_lengths[ id ]
  editing, buf, history_index,  \* linenoisePrompt: in it, the line, the entry shown
  thing,       \* a block of the Lua program
  stored,      \* history: what the owner of each block stored in it
  short,       \* history: an allocation failed in linenoisePrompt
  wild         \* the program has used a pointer that is none: anything may follow

editVars == <<editing, buf, history_index>>
historyVars == <<array, entries, length>>
vars == <<mem, historyVars, editVars, thing, stored, short, wild>>

Init ==
  /\ mem = InitialMemory
  /\ array = Null /\ entries = [k \in 0 .. HistoryMaxLen - 1 |-> Null] /\ length = 0
  /\ editing = FALSE /\ buf = Empty /\ history_index = 0
  /\ thing = Null
  /\ stored = <<>> /\ short = FALSE /\ wild = FALSE

-----------------------------------------------------------------------------
\* Memory in use: m and what is stored in it.

CellsOf(bytes) == (bytes + 7) \div 8

Bytes(line) == IF line = Empty THEN 1 ELSE IF line \in LongLines THEN 12 ELSE 6

Heap(m, s) == [mem |-> m, stored |-> s, ptr |-> Null]

\* smalloc, the block filled with w, or nothing.
Alloc(h, bytes, w) ==
  LET r == smalloc(h.mem, bytes)
      span == r.ptr .. r.ptr + CellsOf(bytes) - 1
  IN IF r.ptr = Null THEN [h EXCEPT !.ptr = Null]
     ELSE [mem |-> [c \in DOMAIN r.mem |-> IF c \in span THEN w ELSE r.mem[c]],
           stored |-> [a \in DOMAIN h.stored \union {r.ptr} |->
                         IF a = r.ptr THEN [k \in 1 .. CellsOf(bytes) |-> w] ELSE h.stored[a]],
           ptr |-> r.ptr]

Release(h, ptr) ==
  [h EXCEPT !.mem = sfree(@, ptr), !.stored = [a \in DOMAIN h.stored \ {ptr} |-> h.stored[a]]]

\* What is left in memory that is not in use is forgotten: no one is to read it.
Forgotten(m, s) ==
  LET used == Blocks(m) \union UNION {a .. a + Len(s[a]) - 1 : a \in DOMAIN s}
  IN [c \in DOMAIN m |-> IF c \in used THEN m[c] ELSE Junk]

UseHeap(h) == mem' = Forgotten(h.mem, h.stored) /\ stored' = h.stored

-----------------------------------------------------------------------------
\* linenoise_internal_addhistory: what it makes of the heap and the history.

Hist(h, a, e, n, ok) == [heap |-> h, array |-> a, entries |-> e, length |-> n, ok |-> ok]

\* Slip: the entries not moved up.
ShiftedNot(e) == e

Shifted(e) == [k \in DOMAIN e |-> IF k + 1 \in DOMAIN e THEN e[k + 1] ELSE e[k]]

AddTo(h, a, line) ==
  LET copy == Alloc(h, Bytes(line), line)
  IN IF copy.ptr = Null THEN Hist(h, a, entries, length, FALSE)
     ELSE IF length = HistoryMaxLen
       THEN Hist(Release(copy, entries[0]), a, [Shifted(entries) EXCEPT ![length - 1] = copy.ptr], length, TRUE)
       ELSE Hist(copy, a, [entries EXCEPT ![length] = copy.ptr], length + 1, TRUE)

Added(line) ==
  LET made == Alloc(Heap(mem, stored), 4 * HistoryMaxLen, Pointers)
  IN IF array # Null THEN AddTo(Heap(mem, stored), array, line)
     ELSE IF made.ptr = Null THEN Hist(Heap(mem, stored), Null, entries, length, FALSE)
     ELSE AddTo(made, made.ptr, line)

UseHist(r) ==
  UseHeap(r.heap) /\ array' = r.array /\ entries' = r.entries /\ length' = r.length

-----------------------------------------------------------------------------
\* linenoisePrompt

Prompt ==
  /\ ~wild /\ ~editing /\ buf = Empty
  /\ LET r == Added(Empty) IN UseHist(r) /\ short' = (short \/ ~r.ok)
  /\ editing' = TRUE /\ history_index' = 0
  /\ UNCHANGED <<buf, thing, wild>>

\* The keys that change the line make it any line, or leave it.
Typed == Lines \union {Empty, buf}

Shown(index) == length - 1 - index

\* Slip: the entry left is not freed.
ReleaseNot(h, ptr) == h

ReleaseEntry(h, ptr) == Release(h, ptr)

\* The entry shown is replaced by the line, then another one is shown.
UpDown(step, line) ==
  LET k == Shown(history_index)
      copy == Alloc(ReleaseEntry(Heap(mem, stored), entries[k]), Bytes(line), line)
      left == [entries EXCEPT ![k] = copy.ptr]
      index == history_index + step
  IN /\ ~wild /\ editing /\ length > 1
     /\ UseHeap(copy) /\ entries' = left
     /\ short' = (short \/ copy.ptr = Null)
     /\ \/ index < 0 /\ history_index' = 0 /\ buf' = line /\ UNCHANGED wild
        \/ index >= length /\ history_index' = length - 1 /\ buf' = line /\ UNCHANGED wild
        \/ /\ index \in 0 .. length - 1 /\ history_index' = index
           /\ wild' = (left[Shown(index)] = Null)
           /\ buf' = IF wild' THEN line ELSE copy.mem[left[Shown(index)]]
     /\ UNCHANGED <<array, length, editing, thing>>

Up == \E line \in Typed : UpDown(1, line)
Down == \E line \in Typed : UpDown(-1, line)

\* The entry of the line edited is taken off again.
Pop ==
  /\ ~wild /\ editing /\ editing' = FALSE
  /\ IF length = 0 THEN wild' = TRUE /\ UNCHANGED <<mem, stored, length>>
     ELSE /\ length' = length - 1
          /\ UseHeap(ReleaseEntry(Heap(mem, stored), entries[length - 1]))
          /\ UNCHANGED wild
  /\ UNCHANGED <<array, entries, history_index, thing, short>>

\* KC_ENTER; the line is saved next.
Enter == Pop /\ buf' \in Typed

\* KC_CTRL_C, KC_CTRL_Z
Cancel == Pop /\ buf' = Empty

\* linenoise_addhistory of a line that is not empty.
AddHistory ==
  /\ ~wild /\ ~editing /\ buf # Empty /\ buf' = Empty
  /\ UseHist(Added(buf))
  /\ UNCHANGED <<editing, history_index, thing, short, wild>>

\* linenoise_cleanup
Cleanup ==
  /\ ~wild /\ ~editing /\ buf = Empty /\ array # Null
  /\ LET freed[k \in -1 .. HistoryMaxLen - 1] ==
           IF k = -1 THEN Heap(mem, stored)
           ELSE IF k < length THEN Release(freed[k - 1], entries[k]) ELSE freed[k - 1]
     IN UseHeap(Release(freed[HistoryMaxLen - 1], array))
  /\ array' = Null /\ length' = 0
  /\ UNCHANGED <<entries, editVars, thing, short, wild>>

-----------------------------------------------------------------------------
\* The Lua program, between prompts: malloc, realloc and free.

Between == ~wild /\ ~editing

Allocate(bytes) ==
  /\ Between /\ thing = Null
  /\ LET h == Alloc(Heap(mem, stored), bytes, Thing) IN UseHeap(h) /\ thing' = h.ptr
  /\ UNCHANGED <<historyVars, editVars, short, wild>>

\* The program stores into what realloc adds to the block.
Reallocate(bytes) ==
  LET r == srealloc(mem, thing, bytes)
      old == Len(stored[thing])
      n == CellsOf(bytes)
      added == IF r.ptr = Null THEN {} ELSE r.ptr + old .. r.ptr + n - 1
  IN /\ Between /\ thing # Null
     /\ IF r.ptr = Null /\ bytes # 0 THEN UNCHANGED <<mem, stored, thing>>
        ELSE /\ thing' = r.ptr
             /\ UseHeap([mem |-> [c \in DOMAIN mem |-> IF c \in added THEN Thing ELSE r.mem[c]],
                         stored |-> [a \in (DOMAIN stored \ {thing}) \union ({r.ptr} \ {Null}) |->
                                       IF a = r.ptr THEN [k \in 1 .. n |-> Thing] ELSE stored[a]]])
     /\ UNCHANGED <<historyVars, editVars, short, wild>>

Free ==
  /\ Between /\ thing # Null /\ thing' = Null
  /\ UseHeap(Release(Heap(mem, stored), thing))
  /\ UNCHANGED <<historyVars, editVars, short, wild>>

Next ==
  \/ Prompt \/ Up \/ Down \/ Enter \/ Cancel \/ AddHistory \/ Cleanup \/ Free
  \/ \E bytes \in ThingSizes : Allocate(bytes) \/ Reallocate(bytes)

Spec == Init /\ [][Next]_vars

-----------------------------------------------------------------------------
TypeOK ==
  /\ length \in 0 .. HistoryMaxLen /\ history_index \in 0 .. HistoryMaxLen - 1
  /\ DOMAIN stored \subseteq 1 .. LastCell - 1
  /\ {editing, short, wild} \subseteq BOOLEAN

\* The blocks of memory stay a chain of neighbours from guard to guard without two free
\* ones side by side, and every block holds what its owner stored, whatever is
\* allocated, resized and freed about it.
HeapSound ==
  /\ TypeOK
  /\ ~wild =>
       /\ Tiled(mem)
       /\ {a - 1 : a \in DOMAIN stored} \subseteq Blocks(mem)
       /\ \A a \in DOMAIN stored :
            /\ ~IsFree(mem, a - 1) /\ Len(stored[a]) <= ActualSize(mem, a)
            /\ \A k \in DOMAIN stored[a] : mem[a + k - 1] = stored[a][k]

Owned == ({array, thing} \union {entries[k] : k \in 0 .. length - 1}) \ {Null}

\* Every block in use has one owner, the history or the program, which has not freed it:
\* nothing leaks, and nothing is freed twice.
EachOwned ==
  ~wild =>
    /\ {b + 1 : b \in {c \in Blocks(mem) \ {0, LastCell} : ~IsFree(mem, c)}} = Owned
    /\ DOMAIN stored = Owned
    /\ \A j, k \in 0 .. length - 1 : j # k /\ entries[j] # Null => entries[j] # entries[k]

\* The text of the entries, without that of the line edited.
Kept == [k \in 1 .. (IF editing THEN length - 1 ELSE length) |-> mem[entries[k - 1]]]

\* A history gives up its oldest line alone, for a new one, and a line changes only
\* where it is shown and edited; cleanup takes all.  The exception is an allocation that
\* failed in linenoisePrompt: the entry then taken off is a line's (linenoise.c:172).
HistoryKept ==
  [][~short' /\ ~wild' =>
       \/ Kept' = Kept \/ array' = Null
       \/ Len(Kept) = HistoryMaxLen /\ Kept' = Tail(Kept) /\ editing'
       \/ Kept' = Append(Kept, buf) /\ ~editing
       \/ LET k == Shown(history_index) + 1
          IN editing /\ k \in DOMAIN Kept /\ \E line \in Typed : Kept' = [Kept EXCEPT ![k] = line]]_vars
=============================================================================
