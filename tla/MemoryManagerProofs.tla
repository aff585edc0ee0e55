------------------------ MODULE MemoryManagerProofs ------------------------
(***************************************************************************)
(* What the virtual arrays of jpeg8d promise holds for arrays of any size,   *)
(* however much of them is in memory: the invariant of their windows, and     *)
(* that they implement plain arrays.  In the second half, the books of the     *)
(* pools and the share of memory each array gets.                            *)
(*                                                                          *)
(* The lemmas follow one control block v through an access: writing it out,  *)
(* moving the window, reading it in, zeroing.  What an array's rows hold       *)
(* (CellOf) stays the same all along.                                        *)
(***************************************************************************)
EXTENDS MemoryManager, FoldLemmas, TLAPS

\* A control block that may be accessed, and the cells below its first
\* undefined row, which no step of an access may change.
Good(a, v) == BlockOK(a, v) /\ WindowOK(a, v)
SameCells(a, v, w) ==
  \A r \in Rows(a) : r < v.first_undef_row => CellOf(a, w, r) = CellOf(a, v, r)

SameWindow(v, w) ==
  /\ w.mem_buffer = v.mem_buffer /\ w.b_s_open = v.b_s_open
  /\ w.rows_in_mem = v.rows_in_mem /\ w.cur_start_row = v.cur_start_row
  /\ w.first_undef_row = v.first_undef_row /\ w.buffer = v.buffer

LEMMA ShapeType ==
  ASSUME NEW a \in Arrays
  PROVE  /\ Shape[a].rows_in_array \in Nat \ {0} /\ Shape[a].maxaccess \in Nat \ {0}
         /\ Shape[a].pre_zero \in BOOLEAN /\ Shape[a].width \in Nat \ {0}
  BY ShapeAssumption

LEMMA RowsType == ASSUME NEW a \in Arrays PROVE Rows(a) \subseteq Nat
  BY ShapeType DEF Rows

\* do_sarray_io, do_barray_io, writing: no cell changes, and the block is clean.
LEMMA FlushedKeeps ==
  ASSUME NEW a \in Arrays, NEW v, Good(a, v)
  PROVE  /\ Good(a, Flushed(a, v))
         /\ SameWindow(v, Flushed(a, v))
         /\ Flushed(a, v).dirty = FALSE
         /\ SameCells(a, v, Flushed(a, v))
         /\ \A r \in Rows(a) : InWindow(v, r) /\ r < v.first_undef_row =>
              Flushed(a, v).file[r] = CellOf(a, v, r)
         /\ \A r \in Rows(a) : ~InWindow(v, r) => Flushed(a, v).file[r] = v.file[r]
<1> DEFINE w == Flushed(a, v)
<1>1. CASE ~v.dirty
  <2>1. w = v
    BY <1>1 DEF Flushed
  <2>2. v.dirty = FALSE
    BY <1>1 DEF Good, BlockOK
  <2> QED
    BY <2>1, <2>2, RowsType DEF Good, WindowOK, CellOf, SameCells, SameWindow, InWindow, BlockOK
<1>2. CASE v.dirty
  <2>1. w = [v EXCEPT !.file = [r \in Rows(a) |->
               IF InWindow(v, r) /\ r < v.first_undef_row
               THEN v.buffer[r - v.cur_start_row] ELSE v.file[r]], !.dirty = FALSE]
    BY <1>2 DEF Flushed, Written, Good, BlockOK
  <2>2. \A r \in Rows(a) : InWindow(v, r) => v.buffer[r - v.cur_start_row] \in Values
    BY RowsType DEF Good, BlockOK, InWindow
  <2>3. /\ w.dirty = FALSE /\ w.mem_buffer = v.mem_buffer /\ w.b_s_open = v.b_s_open
        /\ w.rows_in_mem = v.rows_in_mem /\ w.cur_start_row = v.cur_start_row
        /\ w.first_undef_row = v.first_undef_row /\ w.buffer = v.buffer
        /\ w.file = [r \in Rows(a) |-> IF InWindow(v, r) /\ r < v.first_undef_row
                                       THEN v.buffer[r - v.cur_start_row] ELSE v.file[r]]
    BY <2>1 DEF Good, BlockOK
  <2>4. w.file \in [Rows(a) -> Values]
    BY <2>2, <2>3 DEF Good, BlockOK
  <2>5. BlockOK(a, w)
    <3>1. v \in [mem_buffer : BOOLEAN, dirty : BOOLEAN, b_s_open : BOOLEAN,
                 rows_in_mem : Nat, cur_start_row : Nat,
                 first_undef_row : 0..Shape[a].rows_in_array,
                 buffer : [0..(v.rows_in_mem - 1) -> Values], file : [Rows(a) -> Values]]
      BY DEF Good, BlockOK
    <3> HIDE DEF w
    <3> QED
      BY <3>1, <2>1, <2>3, <2>4 DEF BlockOK, w
  <2>6. \A r : InWindow(w, r) <=> InWindow(v, r)
    BY <2>3 DEF InWindow
  <2>7. WindowOK(a, w)
    BY <2>3, <2>6 DEF WindowOK, Good
  <2>8. \A r \in Rows(a) : r < v.first_undef_row => ~(r >= v.first_undef_row)
    BY RowsType DEF Good, BlockOK
  <2>9. SameCells(a, v, w)
    BY <2>3, <2>6, <2>8 DEF CellOf, SameCells
  <2>10. \A r \in Rows(a) : InWindow(v, r) /\ r < v.first_undef_row =>
           w.file[r] = CellOf(a, v, r)
    BY <2>3, <2>8 DEF CellOf
  <2> QED
    BY <2>3, <2>5, <2>7, <2>9, <2>10 DEF Good, SameWindow
<1> QED
  BY <1>1, <1>2 DEF Good, BlockOK

\* A clean window and its file agree, so that the file has every cell.
LEMMA CleanFile ==
  ASSUME NEW a \in Arrays, NEW v, Good(a, v), v.dirty = FALSE,
         NEW r \in Rows(a), r < v.first_undef_row
  PROVE  CellOf(a, v, r) = v.file[r]
<1>1. ~(r >= v.first_undef_row)
  BY RowsType DEF Good, BlockOK
<1> QED
  BY <1>1 DEF CellOf, Good, WindowOK

Covers(v, start, end) == v.cur_start_row <= start /\ end <= v.cur_start_row + v.rows_in_mem

\* The window moves: it covers what is asked for, and no cell has changed.
LEMMA MovedKeeps ==
  ASSUME NEW a \in Arrays, NEW v, Good(a, v), NEW start \in Rows(a), NEW num \in Nat,
         ~Refused(a, v, start, num), ~Stuck(v, start, num)
  PROVE  LET w == Moved(a, v, start, start + num)
         IN /\ Good(a, w) /\ SameCells(a, v, w) /\ Covers(w, start, start + num)
            /\ w.first_undef_row = v.first_undef_row /\ w.mem_buffer = TRUE
<1> DEFINE end == start + num
           w == Moved(a, v, start, end)
<1>1. /\ start \in Nat /\ end \in Nat /\ end <= Shape[a].rows_in_array
      /\ num <= Shape[a].maxaccess /\ v.mem_buffer = TRUE
  BY RowsType, ShapeType DEF Refused, Good, BlockOK
<1>2. CASE ~Outside(v, start, end)
  <2>1. w = v
    BY <1>2 DEF Moved
  <2> QED
    BY <1>1, <1>2, <2>1 DEF Outside, Covers, SameCells, Good, BlockOK
<1>3. CASE Outside(v, start, end)
  <2> DEFINE f == Flushed(a, v)
             at == NewStart(v, start, end)
             g == [f EXCEPT !.cur_start_row = at]
  <2>1. /\ Good(a, f) /\ SameWindow(v, f) /\ f.dirty = FALSE /\ SameCells(a, v, f)
    BY FlushedKeeps
  <2> HIDE DEF f
  <2>2. v.b_s_open = TRUE
    BY <1>3 DEF Stuck, Good, BlockOK
  <2>3. v.rows_in_mem \in Nat /\ v.cur_start_row \in Nat /\ v.first_undef_row \in Nat
    BY ShapeType DEF Good, BlockOK
  <2>4. v.rows_in_mem >= Shape[a].maxaccess
    <3>1. CASE v.rows_in_mem = Shape[a].rows_in_array /\ v.cur_start_row = 0
      BY <3>1, <1>1, <1>3, <2>3 DEF Outside
    <3> QED
      BY <3>1, <1>1, <2>3, ShapeType DEF Good, WindowOK
  <2>5. at \in Nat /\ at <= start /\ end <= at + v.rows_in_mem
    BY <1>1, <1>3, <2>3, <2>4, ShapeType DEF NewStart, Outside
  <2> HIDE DEF at
  <2>6. w = [g EXCEPT !.buffer = [i \in 0..(f.rows_in_mem - 1) |->
               IF at + i < f.first_undef_row /\ at + i \in Rows(a)
               THEN f.file[at + i] ELSE f.buffer[i]]]
    BY <1>3, <2>1 DEF Moved, Read, Good, BlockOK, f, at
  <2>7. f.file \in [Rows(a) -> Values] /\ f.buffer \in [0..(f.rows_in_mem - 1) -> Values]
    BY <2>1 DEF Good, BlockOK
  <2>8. /\ w.mem_buffer = v.mem_buffer /\ w.b_s_open = v.b_s_open /\ w.dirty = FALSE
        /\ w.rows_in_mem = v.rows_in_mem /\ w.first_undef_row = v.first_undef_row
        /\ w.cur_start_row = at /\ w.file = f.file
        /\ w.buffer = [i \in 0..(v.rows_in_mem - 1) |->
               IF at + i < v.first_undef_row /\ at + i \in Rows(a)
               THEN f.file[at + i] ELSE f.buffer[i]]
    BY ZenonT(30), <2>1, <2>6 DEF Good, BlockOK, SameWindow
  <2>9. w.buffer \in [0..(w.rows_in_mem - 1) -> Values]
    BY <2>1, <2>7, <2>8 DEF SameWindow
  <2>10. BlockOK(a, w)
    <3>1. f \in [mem_buffer : BOOLEAN, dirty : BOOLEAN, b_s_open : BOOLEAN,
                 rows_in_mem : Nat, cur_start_row : Nat,
                 first_undef_row : 0..Shape[a].rows_in_array,
                 buffer : [0..(f.rows_in_mem - 1) -> Values], file : [Rows(a) -> Values]]
      BY <2>1 DEF Good, BlockOK
    <3>2. w.rows_in_mem = f.rows_in_mem
      BY <2>1, <2>8 DEF SameWindow
    <3> HIDE DEF w
    <3> QED
      BY <3>1, <3>2, <2>5, <2>6, <2>9 DEF BlockOK
  <2>11. \A r \in Rows(a) : r < v.first_undef_row /\ InWindow(w, r) =>
           w.buffer[r - w.cur_start_row] = f.file[r]
    <3> SUFFICES ASSUME NEW r \in Rows(a), r < v.first_undef_row, InWindow(w, r)
                 PROVE  w.buffer[r - at] = f.file[r]
      BY <2>8
    <3>1. r - at \in 0..(v.rows_in_mem - 1) /\ at + (r - at) = r
      BY SMTT(30), RowsType, <2>3, <2>5, <2>8 DEF InWindow
    <3> HIDE DEF w
    <3> QED
      BY <3>1, <2>8
  <2>12. WindowOK(a, w)
    BY <1>1, <2>2, <2>4, <2>8, <2>11 DEF WindowOK
  <2>13. SameCells(a, v, w)
    <3> SUFFICES ASSUME NEW r \in Rows(a), r < v.first_undef_row
                 PROVE  CellOf(a, w, r) = CellOf(a, v, r)
      BY DEF SameCells
    <3>1. ~(r >= w.first_undef_row) /\ r < f.first_undef_row
      BY RowsType, <2>1, <2>3, <2>8 DEF SameWindow
    <3>2. CellOf(a, w, r) = f.file[r]
      BY <3>1, <2>8, <2>11 DEF CellOf
    <3>3. CellOf(a, f, r) = f.file[r]
      BY <3>1, <2>1, CleanFile
    <3> QED
      BY <3>2, <3>3, <2>1 DEF SameCells
  <2> QED
    BY <1>1, <2>5, <2>8, <2>10, <2>12, <2>13 DEF Good, Covers
<1> QED
  BY <1>2, <1>3

Larger(x, y) == IF x < y THEN y ELSE x

\* Rows are opened in a window that covers them.
LEMMA OpeningKeeps ==
  ASSUME NEW a \in Arrays, NEW v, Good(a, v), NEW start \in Rows(a), NEW num \in Nat,
         NEW writable \in BOOLEAN, v.mem_buffer = TRUE,
         start + num <= Shape[a].rows_in_array, Covers(v, start, start + num),
         ~Undefined(a, v, start, num, writable)
  PROVE  LET w == Opening(a, v, start, start + num, writable)
             g == [start |-> start, num |-> num, writable |-> writable]
         IN /\ Good(a, w) /\ SameCells(a, v, w) /\ GrantOK(a, w, g)
            /\ w.first_undef_row =
                 IF writable THEN Larger(v.first_undef_row, start + num) ELSE v.first_undef_row
            /\ Shape[a].pre_zero => \A r \in Rows(a) :
                 r >= v.first_undef_row => CellOf(a, w, r) = Blank(a)
<1> DEFINE end == start + num
           fresh == v.first_undef_row < end
           from == IF v.first_undef_row < start THEN start ELSE v.first_undef_row
           z == IF fresh /\ Shape[a].pre_zero THEN Zeroed(v, from, end) ELSE v
           w == Opening(a, v, start, end, writable)
           g == [start |-> start, num |-> num, writable |-> writable]
<1>1. /\ start \in Nat /\ end \in Nat /\ v.rows_in_mem \in Nat /\ v.cur_start_row \in Nat
      /\ v.first_undef_row \in Nat /\ v.first_undef_row <= Shape[a].rows_in_array
      /\ Shape[a].rows_in_array \in Nat /\ from \in Nat /\ from >= v.first_undef_row
      /\ from >= start
  BY RowsType, ShapeType DEF Good, BlockOK
<1>2. v \in [mem_buffer : BOOLEAN, dirty : BOOLEAN, b_s_open : BOOLEAN,
             rows_in_mem : Nat, cur_start_row : Nat,
             first_undef_row : 0..Shape[a].rows_in_array,
             buffer : [0..(v.rows_in_mem - 1) -> Values], file : [Rows(a) -> Values]]
  BY DEF Good, BlockOK
<1>3. /\ z = [v EXCEPT !.buffer = z.buffer]
      /\ z.buffer \in [0..(v.rows_in_mem - 1) -> Values]
      /\ \A i \in 0..(v.rows_in_mem - 1) :
           z.buffer[i] = IF fresh /\ Shape[a].pre_zero /\ v.cur_start_row + i >= from
                            /\ v.cur_start_row + i < end THEN Zero ELSE v.buffer[i]
  BY <1>2 DEF Zeroed, Values
<1>4. w = IF writable THEN [z EXCEPT !.dirty = TRUE,
                                     !.first_undef_row = IF fresh THEN end ELSE @] ELSE z
  BY DEF Opening
<1> HIDE DEF z, w
<1>5. /\ w.mem_buffer = v.mem_buffer /\ w.b_s_open = v.b_s_open
      /\ w.rows_in_mem = v.rows_in_mem /\ w.cur_start_row = v.cur_start_row
      /\ w.file = v.file /\ w.buffer = z.buffer
      /\ w.first_undef_row = IF writable THEN Larger(v.first_undef_row, end) ELSE v.first_undef_row
      /\ (writable => w.dirty = TRUE) /\ (~writable => w.dirty = v.dirty)
  BY <1>1, <1>2, <1>3, <1>4 DEF Larger
<1>6. BlockOK(a, w)
  <2>1. w.first_undef_row \in 0..Shape[a].rows_in_array
    BY <1>1, <1>5 DEF Larger
  <2> QED
    BY <1>2, <1>3, <1>4, <1>5, <2>1 DEF BlockOK
<1>7. \A r : InWindow(w, r) <=> InWindow(v, r)
  BY <1>5 DEF InWindow
<1>8. \A r \in Rows(a) : InWindow(v, r) =>
        w.buffer[r - v.cur_start_row] = IF fresh /\ Shape[a].pre_zero /\ r >= from /\ r < end
                                        THEN Zero ELSE v.buffer[r - v.cur_start_row]
  <2> SUFFICES ASSUME NEW r \in Rows(a), InWindow(v, r)
               PROVE  w.buffer[r - v.cur_start_row] =
                        IF fresh /\ Shape[a].pre_zero /\ r >= from /\ r < end
                        THEN Zero ELSE v.buffer[r - v.cur_start_row]
    OBVIOUS
  <2>1. r - v.cur_start_row \in 0..(v.rows_in_mem - 1)
        /\ v.cur_start_row + (r - v.cur_start_row) = r
    BY <1>1, RowsType DEF InWindow
  <2> QED
    BY <2>1, <1>3, <1>5
<1>9. WindowOK(a, w)
  <2>1. ~w.dirty => w.first_undef_row = v.first_undef_row /\ ~v.dirty
    BY <1>5
  <2>2. \A r \in Rows(a) : r < v.first_undef_row => ~(r >= from)
    BY <1>1, RowsType
  <2>3. ASSUME ~w.dirty, NEW r \in Rows(a), InWindow(w, r), r < w.first_undef_row
        PROVE  w.buffer[r - w.cur_start_row] = w.file[r]
    <3>1. ~(r >= from) /\ InWindow(v, r) /\ r < v.first_undef_row /\ ~v.dirty
      BY <1>7, <2>1, <2>2, <2>3
    <3>2. v.buffer[r - v.cur_start_row] = v.file[r]
      BY <3>1 DEF Good, WindowOK
    <3> QED
      BY <1>5, <1>8, <3>1, <3>2
  <2>4. w.mem_buffer = TRUE
    BY <1>5
  <2>5. \/ w.rows_in_mem = Shape[a].rows_in_array /\ w.cur_start_row = 0
        \/ w.b_s_open /\ w.rows_in_mem >= Shape[a].maxaccess
    BY <1>5 DEF Good, WindowOK
  <2> QED
    BY <2>3, <2>4, <2>5 DEF WindowOK
<1>10. SameCells(a, v, w)
  <2> SUFFICES ASSUME NEW r \in Rows(a), r < v.first_undef_row
               PROVE  CellOf(a, w, r) = CellOf(a, v, r)
    BY DEF SameCells
  <2>1. ~(r >= v.first_undef_row) /\ ~(r >= w.first_undef_row) /\ ~(r >= from)
    BY <1>1, <1>5, RowsType DEF Larger
  <2> QED
    BY <2>1, <1>5, <1>7, <1>8 DEF CellOf
<1>11. GrantOK(a, w, g)
  <2>1. ASSUME NEW r \in g.start..(g.start + g.num - 1)
        PROVE  /\ InWindow(w, r) /\ r \in Rows(a)
               /\ r >= w.first_undef_row =>
                    Shape[a].pre_zero /\ w.buffer[r - w.cur_start_row] = Zero
    <3>1. r \in Nat /\ r >= start /\ r < end
      BY <1>1
    <3>2. InWindow(w, r) /\ r \in Rows(a)
      BY <1>1, <1>5, <3>1 DEF InWindow, Covers, Rows
    <3>3. ASSUME r >= w.first_undef_row
          PROVE  Shape[a].pre_zero /\ w.buffer[r - w.cur_start_row] = Zero
      <4>1. ~writable /\ r >= v.first_undef_row
        BY <1>1, <1>5, <3>1, <3>3 DEF Larger
      <4>2. fresh /\ r >= from
        BY <1>1, <3>1, <4>1
      <4>3. Shape[a].pre_zero
        BY <4>1, <4>2 DEF Undefined
      <4> QED
        BY <3>1, <3>2, <4>2, <4>3, <1>5, <1>7, <1>8
    <3> QED
      BY <3>2, <3>3
  <2>2. g.writable => w.dirty /\ g.start + g.num <= w.first_undef_row
    BY <1>1, <1>5 DEF Larger
  <2> QED
    BY <2>1, <2>2 DEF GrantOK
<1>12. ASSUME Shape[a].pre_zero, NEW r \in Rows(a), r >= v.first_undef_row
       PROVE  CellOf(a, w, r) = Blank(a)
  <2>1. CASE r >= w.first_undef_row
    BY <2>1 DEF CellOf
  <2>2. CASE ~(r >= w.first_undef_row)
    <3>1. writable /\ r < end /\ fresh
      BY <1>1, <1>5, <1>12, <2>2, RowsType DEF Larger
    <3>2. start <= v.first_undef_row
      BY <3>1, <1>1 DEF Undefined
    <3>3. r >= from /\ InWindow(v, r)
      BY <1>1, <1>12, <3>1, <3>2, RowsType DEF InWindow, Covers
    <3> QED
      BY <1>5, <1>7, <1>8, <1>12, <2>2, <3>1, <3>3 DEF CellOf, Blank
  <2> QED
    BY <2>1, <2>2
<1> QED
  BY <1>5, <1>6, <1>9, <1>10, <1>11, <1>12 DEF Good, w

-----------------------------------------------------------------------------
(* The invariant.                                                          *)

\* No allocation reports what only an access may.
LEMMA AllocErrors ==
  ASSUME NEW m, NEW pool, NEW size, NEW width, NEW numrows
  PROVE  /\ AllocSmall(m, pool, size).err # "VIRTUAL_BUG"
         /\ AllocLarge(m, pool, size).err # "VIRTUAL_BUG"
         /\ AllocArray(m, pool, width, numrows).err # "VIRTUAL_BUG"
<1>1. AllocSmall(m, pool, size).err # "VIRTUAL_BUG"
  BY DEF AllocSmall, Result
<1>2. AllocLarge(m, pool, size).err # "VIRTUAL_BUG"
  BY DEF AllocLarge, Result
<1>3. AllocArray(m, pool, width, numrows).err # "VIRTUAL_BUG"
  BY DEF AllocArray, Result
<1> QED
  BY <1>1, <1>2, <1>3

\* An array that is not realized meets its part of the invariant.
LEMMA UnrealizedGood ==
  ASSUME NEW a \in Arrays
  PROVE  /\ Good(a, Unrealized(a)) /\ GrantOK(a, Unrealized(a), NoGrant)
         /\ Unrealized(a).mem_buffer = FALSE /\ Unrealized(a).first_undef_row = 0
<1>1. BlockOK(a, Unrealized(a))
  BY ShapeType DEF BlockOK, Unrealized, Values
<1>2. WindowOK(a, Unrealized(a))
  BY DEF WindowOK, Unrealized, InWindow, Rows
<1>3. GrantOK(a, Unrealized(a), NoGrant)
  BY DEF GrantOK, NoGrant
<1> QED
  BY <1>1, <1>2, <1>3 DEF Good, Unrealized

LEMMA InitInv == Init => MemoryInv
<1> SUFFICES ASSUME Init PROVE MemoryInv
  OBVIOUS
<1>1. \A a \in Arrays : virt[a] = Unrealized(a) /\ grant[a] = NoGrant
  BY DEF Init
<1>2. PlanOK
  BY <1>1, UnrealizedGood DEF Init, PlanOK, NoPlan
<1>3. grant \in [Arrays -> [start : Nat, num : Nat, writable : BOOLEAN]]
  BY DEF Init, NoGrant
<1> QED
  BY <1>1, <1>2, <1>3, UnrealizedGood DEF Init, MemoryInv, Good

\* The part of the invariant that is about array a.
ArrayInv(a) ==
  /\ BlockOK(a, virt[a]) /\ WindowOK(a, virt[a]) /\ GrantOK(a, virt[a], grant[a])
  /\ ~virt[a].mem_buffer => grant[a] = NoGrant

\* A step that leaves the arrays alone.
LEMMA AlonePreserves ==
  ASSUME MemoryInv, virt' = virt, grant' = grant, PlanOK', error' # "VIRTUAL_BUG"
  PROVE  MemoryInv'
  BY DEF MemoryInv

\* A step that touches one array.
LEMMA OnePreserves ==
  ASSUME MemoryInv, NEW a \in Arrays, NEW w, NEW g \in [start : Nat, num : Nat, writable : BOOLEAN],
         virt' = [virt EXCEPT ![a] = w], grant' = [grant EXCEPT ![a] = g],
         BlockOK(a, w), WindowOK(a, w), GrantOK(a, w, g), ~w.mem_buffer => g = NoGrant,
         PlanOK', error' # "VIRTUAL_BUG"
  PROVE  MemoryInv'
<1>1. /\ virt'[a] = w /\ grant'[a] = g
      /\ \A b \in Arrays \ {a} : virt'[b] = virt[b] /\ grant'[b] = grant[b]
  BY DEF MemoryInv
<1>2. virt' = [b \in Arrays |-> virt'[b]]
  BY DEF MemoryInv
<1>3. grant' \in [Arrays -> [start : Nat, num : Nat, writable : BOOLEAN]]
  BY DEF MemoryInv
<1>4. ASSUME NEW b \in Arrays
      PROVE  /\ BlockOK(b, virt'[b]) /\ WindowOK(b, virt'[b]) /\ GrantOK(b, virt'[b], grant'[b])
             /\ ~virt'[b].mem_buffer => grant'[b] = NoGrant
  BY <1>1 DEF MemoryInv
<1> QED
  BY <1>2, <1>3, <1>4 DEF MemoryInv

LEMMA RealizeArrayPreserves ==
  ASSUME MemoryInv, NEW a \in Arrays, RealizeArray(a)
  PROVE  MemoryInv'
<1> DEFINE got == AllocArray(mem, IMAGE, Shape[a].width, RowsInMem(a))
           v == [virt[a] EXCEPT !.b_s_open = Opened(a, got.err)]
           n == RowsInMem(a)
           w == [v EXCEPT !.mem_buffer = TRUE, !.rows_in_mem = n,
                          !.buffer = [i \in 0..(n - 1) |-> Junk],
                          !.cur_start_row = 0, !.first_undef_row = 0, !.dirty = FALSE]
<1>1. CASE ~Fits(a) /\ ~system.backing_store
  <2>1. virt' = virt /\ grant' = grant /\ plan' = plan /\ error' = "NO_BACKING_STORE"
    BY <1>1 DEF RealizeArray
  <2>2. PlanOK'
    BY <2>1 DEF MemoryInv, PlanOK
  <2> QED
    BY <2>1, <2>2, AlonePreserves
<1>2. CASE ~(~Fits(a) /\ ~system.backing_store)
  <2>1. /\ virt' = [virt EXCEPT ![a] = IF got.err # "" THEN v ELSE w]
        /\ plan' = [plan EXCEPT !.todo = @ \ {a}] /\ error' = got.err
        /\ grant' = grant /\ a \in plan.todo
    BY <1>2 DEF RealizeArray
  <2>2. /\ Good(a, virt[a]) /\ virt[a].mem_buffer = FALSE /\ grant[a] = NoGrant
        /\ plan.max_minheights \in Nat /\ plan.max_minheights > 0
    BY <2>1 DEF MemoryInv, PlanOK, Good, BlockOK
  <2>3. error' # "VIRTUAL_BUG"
    BY <2>1, AllocErrors
  <2> HIDE DEF got
  <2>4. grant' = [grant EXCEPT ![a] = NoGrant]
    BY <2>1, <2>2 DEF MemoryInv
  <2>5. NoGrant \in [start : Nat, num : Nat, writable : BOOLEAN]
    BY DEF NoGrant
  <2>6. PlanOK'
    <3>1. \A b \in Arrays : b # a => virt'[b] = virt[b]
      BY <2>1 DEF MemoryInv
    <3>2. plan'.todo = plan.todo \ {a} /\ plan'.max_minheights = plan.max_minheights
      BY <2>1 DEF MemoryInv, PlanOK
    <3>3. plan' = [todo |-> plan'.todo, max_minheights |-> plan'.max_minheights,
                   space |-> plan'.space, arrays |-> plan'.arrays]
      BY <2>1 DEF MemoryInv, PlanOK
    <3> QED
      BY <3>1, <3>2, <3>3, <2>2 DEF MemoryInv, PlanOK
  <2>7. virt[a] \in [mem_buffer : BOOLEAN, dirty : BOOLEAN, b_s_open : BOOLEAN,
             rows_in_mem : Nat, cur_start_row : Nat,
             first_undef_row : 0..Shape[a].rows_in_array,
             buffer : [0..(virt[a].rows_in_mem - 1) -> Values], file : [Rows(a) -> Values]]
    BY <2>2 DEF Good, BlockOK
  <2>8. Opened(a, got.err) = (~Fits(a)) /\ Opened(a, got.err) \in BOOLEAN
    BY DEF Opened
  <2>9. \A g : g = NoGrant => \A r \in g.start..(g.start + g.num - 1) : FALSE
    BY DEF NoGrant
  <2>10. CASE got.err # ""
    <3>1. BlockOK(a, v)
      BY <2>7, <2>8 DEF BlockOK
    <3>2. /\ v.mem_buffer = FALSE /\ v.first_undef_row = virt[a].first_undef_row
          /\ v.dirty = virt[a].dirty
      BY <2>7, <2>2
    <3>3. v.first_undef_row = 0
      BY <2>2, <3>2 DEF Good, WindowOK
    <3>4. WindowOK(a, v)
      BY <3>2, <3>3, RowsType DEF WindowOK
    <3>5. GrantOK(a, v, NoGrant)
      BY <2>9 DEF GrantOK, NoGrant
    <3> HIDE DEF v
    <3> QED
      BY <2>1, <2>3, <2>4, <2>5, <2>6, <2>10, <3>1, <3>4, <3>5, OnePreserves
  <2>11. CASE ~(got.err # "")
    <3>1. n \in Nat
      BY <2>2, ShapeType DEF RowsInMem
    <3>2. /\ w.mem_buffer = TRUE /\ w.rows_in_mem = n /\ w.cur_start_row = 0
          /\ w.first_undef_row = 0 /\ w.dirty = FALSE /\ w.b_s_open = (~Fits(a))
          /\ w.file = virt[a].file /\ w.buffer = [i \in 0..(n - 1) |-> Junk]
      BY <2>7, <2>8
    <3>3. BlockOK(a, w)
      <4>1. w.buffer \in [0..(w.rows_in_mem - 1) -> Values]
        BY <3>2 DEF Values
      <4>2. 0 \in 0..Shape[a].rows_in_array
        BY ShapeType
      <4>3. DOMAIN w = DOMAIN virt[a]
        OBVIOUS
      <4>4. w = [virt[a] EXCEPT !.b_s_open = Opened(a, got.err), !.mem_buffer = TRUE,
                  !.rows_in_mem = n, !.buffer = [i \in 0..(n - 1) |-> Junk],
                  !.cur_start_row = 0, !.first_undef_row = 0, !.dirty = FALSE]
        OBVIOUS
      <4> HIDE DEF w, v
      <4> QED
        BY <2>7, <2>8, <3>1, <3>2, <4>1, <4>2, <4>4 DEF BlockOK
    <3> HIDE DEF w
    <3>7. WindowOK(a, w)
      <4>1. \A r \in Rows(a) : ~(r < 0)
        BY RowsType
      <4>2. CASE Fits(a)
        <5>1. n = Shape[a].rows_in_array
          BY <4>2 DEF RowsInMem
        <5> QED
          BY <3>2, <4>1, <5>1 DEF WindowOK
      <4>3. CASE ~Fits(a)
        <5>1. n >= Shape[a].maxaccess
          BY <2>2, <4>3, ShapeType DEF RowsInMem
        <5> QED
          BY <3>2, <4>1, <4>3, <5>1 DEF WindowOK
      <4> QED
        BY <4>2, <4>3
    <3>6. GrantOK(a, w, NoGrant)
      BY <2>9 DEF GrantOK, NoGrant
    <3> QED
      BY <2>1, <2>3, <2>4, <2>5, <2>6, <2>11, <3>2, <3>3, <3>6, <3>7, OnePreserves
  <2> QED
    BY <2>10, <2>11
<1> QED
  BY <1>1, <1>2

\* What an access does to its array, refused, failing or not.
LEMMA AccessKeeps ==
  ASSUME MemoryInv, NEW a \in Arrays, NEW start \in Rows(a), NEW num \in Nat,
         NEW writable \in BOOLEAN
  PROVE  LET v == virt[a]
             w == Accessed(a, v, start, num, writable)
             e == AccessError(a, v, start, num, writable)
             g == [start |-> start, num |-> num, writable |-> writable]
         IN /\ Good(a, w) /\ SameCells(a, v, w) /\ e # "VIRTUAL_BUG"
            /\ w.mem_buffer = v.mem_buffer
            /\ e # "" => w.first_undef_row = v.first_undef_row
            /\ e = "" =>
                 /\ GrantOK(a, w, g) /\ w.mem_buffer = TRUE
                 /\ ~Refused(a, v, start, num) /\ ~Undefined(a, v, start, num, writable)
                 /\ w.first_undef_row = IF writable THEN Larger(v.first_undef_row, start + num)
                                        ELSE v.first_undef_row
                 /\ Shape[a].pre_zero => \A r \in Rows(a) :
                      r >= v.first_undef_row => CellOf(a, w, r) = Blank(a)
<1> DEFINE v == virt[a]
           end == start + num
           m == Moved(a, v, start, end)
           w == Accessed(a, v, start, num, writable)
<1>1. Good(a, v)
  BY DEF MemoryInv, Good
<1> HIDE DEF v
<1>2. CASE Refused(a, v, start, num)
  BY <1>1, <1>2 DEF Accessed, AccessError, SameCells, v
<1>3. CASE ~Refused(a, v, start, num)
  <2>1. ~Stuck(v, start, num)
    <3>1. /\ end <= Shape[a].rows_in_array /\ v.mem_buffer /\ start \in Nat
      BY <1>3, ShapeType, RowsType DEF Refused
    <3>2. v.b_s_open \/ (v.rows_in_mem = Shape[a].rows_in_array /\ v.cur_start_row = 0)
      BY <1>1, <3>1 DEF Good, WindowOK
    <3> QED
      BY <3>1, <3>2, ShapeType DEF Stuck, Outside
  <2>2. /\ Good(a, m) /\ SameCells(a, v, m) /\ Covers(m, start, end)
        /\ m.first_undef_row = v.first_undef_row /\ m.mem_buffer = TRUE
    BY <1>1, <1>3, <2>1, MovedKeeps
  <2>3. v.mem_buffer = TRUE /\ end <= Shape[a].rows_in_array
    BY <1>1, <1>3, ShapeType, RowsType DEF Refused, Good, BlockOK
  <2> HIDE DEF m
  <2>4. CASE Undefined(a, v, start, num, writable)
    <3>1. w = m /\ AccessError(a, v, start, num, writable) = "BAD_VIRTUAL_ACCESS"
      BY <1>3, <2>1, <2>4 DEF Accessed, AccessError, m
    <3> QED
      BY <2>2, <2>3, <3>1 DEF v
  <2>5. CASE ~Undefined(a, v, start, num, writable)
    <3>1. /\ w = Opening(a, m, start, end, writable)
          /\ AccessError(a, v, start, num, writable) = ""
      BY <1>3, <2>1, <2>5 DEF Accessed, AccessError, m
    <3>2. ~Undefined(a, m, start, num, writable)
      BY <2>2, <2>5 DEF Undefined
    <3> DEFINE g == [start |-> start, num |-> num, writable |-> writable]
    <3> HIDE DEF w
    <3>3. /\ Good(a, w) /\ SameCells(a, m, w) /\ GrantOK(a, w, g)
          /\ w.first_undef_row = IF writable THEN Larger(m.first_undef_row, start + num)
                                 ELSE m.first_undef_row
          /\ Shape[a].pre_zero => \A r \in Rows(a) :
               r >= m.first_undef_row => CellOf(a, w, r) = Blank(a)
      BY <2>2, <2>3, <3>1, <3>2, OpeningKeeps
    <3>4. SameCells(a, v, w)
      BY <2>2, <3>3 DEF SameCells
    <3>5. w.mem_buffer = TRUE
      <4>1. DOMAIN m = DOMAIN Unrealized(a)
        BY <2>2 DEF Good, BlockOK, Unrealized
      <4> QED
        BY <2>2, <3>1, <4>1 DEF Opening, Zeroed, Good, BlockOK
    <3> QED
      BY <1>3, <2>2, <2>3, <2>5, <3>1, <3>3, <3>4, <3>5 DEF v, w
  <2> QED
    BY <2>4, <2>5
<1> QED
  BY <1>2, <1>3

LEMMA AccessPreserves ==
  ASSUME MemoryInv, NEW a \in Arrays, NEW start \in Rows(a), NEW num \in Nat,
         NEW writable \in BOOLEAN, AccessVirtArray(a, start, num, writable)
  PROVE  MemoryInv'
<1> DEFINE w == Accessed(a, virt[a], start, num, writable)
           e == AccessError(a, virt[a], start, num, writable)
           g == IF e = "" THEN [start |-> start, num |-> num, writable |-> writable] ELSE NoGrant
<1>1. virt' = [virt EXCEPT ![a] = w] /\ grant' = [grant EXCEPT ![a] = g]
      /\ error' = e /\ plan' = plan /\ plan.todo = {}
  BY DEF AccessVirtArray, Idle
<1>2. /\ Good(a, w) /\ e # "VIRTUAL_BUG" /\ w.mem_buffer = virt[a].mem_buffer
      /\ e = "" => w.mem_buffer = TRUE
                   /\ GrantOK(a, w, [start |-> start, num |-> num, writable |-> writable])
  BY AccessKeeps
<1> HIDE DEF w, e
<1>3. g \in [start : Nat, num : Nat, writable : BOOLEAN]
  BY RowsType DEF NoGrant
<1>4. GrantOK(a, w, g)
  <2>1. CASE e = ""
    <3>1. g = [start |-> start, num |-> num, writable |-> writable]
      BY <2>1
    <3> HIDE DEF g
    <3> QED
      BY <1>2, <2>1, <3>1
  <2>2. CASE e # ""
    <3>1. GrantOK(a, w, NoGrant)
      BY DEF GrantOK, NoGrant
    <3> QED
      BY <2>2, <3>1
  <2> QED
    BY <2>1, <2>2
<1>5. ~w.mem_buffer => g = NoGrant
  BY <1>2
<1>6. PlanOK'
  BY <1>1 DEF MemoryInv, PlanOK
<1>7. BlockOK(a, w) /\ WindowOK(a, w) /\ error' # "VIRTUAL_BUG"
  BY <1>1, <1>2 DEF Good
<1>8. virt' = [virt EXCEPT ![a] = w] /\ grant' = [grant EXCEPT ![a] = g]
  BY <1>1
<1> HIDE DEF g
<1> QED
  BY <1>3, <1>4, <1>5, <1>6, <1>7, <1>8, OnePreserves

\* A row that is written: it is in the window, and no other cell changes.
LEMMA WriteKeeps ==
  ASSUME MemoryInv, NEW a \in Arrays, NEW r \in Rows(a), NEW x \in Data, WriteRow(a, r, x)
  PROVE  LET w == virt'[a]
         IN /\ virt' = [virt EXCEPT ![a] = w] /\ Good(a, w) /\ GrantOK(a, w, grant[a])
            /\ w.mem_buffer = virt[a].mem_buffer
            /\ w.first_undef_row = virt[a].first_undef_row
            /\ CellOf(a, w, r) = x
            /\ \A q \in Rows(a) \ {r} : CellOf(a, w, q) = CellOf(a, virt[a], q)
<1> DEFINE v == virt[a]
           at == r - v.cur_start_row
           w == [v EXCEPT !.buffer = [v.buffer EXCEPT ![at] = x]]
<1>1. virt' = [virt EXCEPT ![a] = w] /\ virt'[a] = w
  BY DEF WriteRow, MemoryInv
<1>2. /\ Good(a, v) /\ GrantOK(a, v, grant[a]) /\ grant[a].writable
      /\ r \in grant[a].start..(grant[a].start + grant[a].num - 1)
      /\ grant[a].start \in Nat /\ grant[a].num \in Nat
  BY DEF WriteRow, MemoryInv, Good
<1>3. v \in [mem_buffer : BOOLEAN, dirty : BOOLEAN, b_s_open : BOOLEAN,
             rows_in_mem : Nat, cur_start_row : Nat,
             first_undef_row : 0..Shape[a].rows_in_array,
             buffer : [0..(v.rows_in_mem - 1) -> Values], file : [Rows(a) -> Values]]
  BY <1>2 DEF Good, BlockOK
<1> HIDE DEF v
<1>4. InWindow(v, r) /\ v.dirty /\ r < v.first_undef_row /\ r \in Nat /\ at \in 0..(v.rows_in_mem - 1)
      /\ grant[a].start + grant[a].num <= v.first_undef_row
  <2>1. InWindow(v, r) /\ v.dirty /\ grant[a].start + grant[a].num <= v.first_undef_row
    BY <1>2 DEF GrantOK
  <2>2. r \in Nat /\ v.cur_start_row \in Nat /\ v.rows_in_mem \in Nat /\ v.first_undef_row \in Nat
    BY <1>3, RowsType, ShapeType
  <2>3. r < v.first_undef_row
    BY <1>2, <2>1, <2>2
  <2>4. at \in 0..(v.rows_in_mem - 1)
    BY <2>1, <2>2 DEF InWindow
  <2> QED
    BY <2>1, <2>2, <2>3, <2>4
<1>5. /\ w.mem_buffer = v.mem_buffer /\ w.b_s_open = v.b_s_open /\ w.dirty = v.dirty
      /\ w.rows_in_mem = v.rows_in_mem /\ w.cur_start_row = v.cur_start_row
      /\ w.first_undef_row = v.first_undef_row /\ w.file = v.file
      /\ w.buffer = [v.buffer EXCEPT ![at] = x]
  BY <1>3
<1>6. BlockOK(a, w)
  <2>1. [v.buffer EXCEPT ![at] = x] \in [0..(v.rows_in_mem - 1) -> Values]
    BY <1>3 DEF Values
  <2> QED
    BY <1>3, <1>5, <2>1 DEF BlockOK
<1> HIDE DEF w
<1>7. WindowOK(a, w)
  BY <1>2, <1>4, <1>5 DEF Good, WindowOK
<1>8. \A q : InWindow(w, q) <=> InWindow(v, q)
  BY <1>5 DEF InWindow
<1>9. GrantOK(a, w, grant[a])
  <2>1. \A q \in grant[a].start..(grant[a].start + grant[a].num - 1) : ~(q >= v.first_undef_row)
    BY SMTT(30), <1>2, <1>3, <1>4, ShapeType
  <2> QED
    BY <1>2, <1>5, <1>8, <2>1 DEF GrantOK
<1>10. CellOf(a, w, r) = x
  BY <1>3, <1>4, <1>5, <1>8, ShapeType DEF CellOf
<1>11. ASSUME NEW q \in Rows(a) \ {r} PROVE CellOf(a, w, q) = CellOf(a, v, q)
  <2>1. q - v.cur_start_row # at
    BY <1>3, <1>4, RowsType
  <2>2. InWindow(v, q) => q - v.cur_start_row \in 0..(v.rows_in_mem - 1)
    BY <1>3, RowsType DEF InWindow
  <2> QED
    BY <1>3, <1>5, <1>8, <2>1, <2>2 DEF CellOf
<1> QED
  BY <1>1, <1>5, <1>6, <1>7, <1>9, <1>10, <1>11 DEF Good, v

LEMMA WritePreserves ==
  ASSUME MemoryInv, NEW a \in Arrays, NEW r \in Rows(a), NEW x \in Data, WriteRow(a, r, x)
  PROVE  MemoryInv'
<1> DEFINE w == virt'[a]
<1>1. /\ virt' = [virt EXCEPT ![a] = w] /\ Good(a, w) /\ GrantOK(a, w, grant[a])
      /\ w.mem_buffer = virt[a].mem_buffer
  BY WriteKeeps
<1>2. grant' = grant /\ error' = error /\ plan' = plan /\ plan.todo = {}
  BY DEF WriteRow, Idle
<1>3. grant' = [grant EXCEPT ![a] = grant[a]] /\ error' # "VIRTUAL_BUG"
      /\ grant[a] \in [start : Nat, num : Nat, writable : BOOLEAN]
  BY <1>2 DEF MemoryInv
<1>4. PlanOK'
  BY <1>2 DEF MemoryInv, PlanOK
<1>5. ~w.mem_buffer => grant[a] = NoGrant
  BY <1>1 DEF MemoryInv
<1> HIDE DEF w
<1> QED
  BY <1>1, <1>3, <1>4, <1>5, OnePreserves DEF Good

LEMMA ClosePreserves == ASSUME CloseArrays PROVE MemoryInv'
<1>1. \A a \in Arrays : virt'[a] = Unrealized(a) /\ grant'[a] = NoGrant
  BY DEF CloseArrays
<1>2. PlanOK'
  BY <1>1, UnrealizedGood DEF CloseArrays, PlanOK, NoPlan
<1>3. grant' \in [Arrays -> [start : Nat, num : Nat, writable : BOOLEAN]]
  BY DEF CloseArrays, NoGrant
<1>4. virt' = [a \in Arrays |-> virt'[a]] /\ error' = ""
  BY DEF CloseArrays
<1>5. \A a \in Arrays :
        /\ BlockOK(a, virt'[a]) /\ WindowOK(a, virt'[a]) /\ GrantOK(a, virt'[a], grant'[a])
        /\ ~virt'[a].mem_buffer => grant'[a] = NoGrant
  BY <1>1, UnrealizedGood DEF Good
<1> QED
  BY <1>2, <1>3, <1>4, <1>5 DEF MemoryInv

LEMMA StepInv == MemoryInv /\ [Next]_vars => MemoryInv'
<1> SUFFICES ASSUME MemoryInv, [Next]_vars PROVE MemoryInv'
  OBVIOUS
<1>1. ASSUME NEW pool \in Pools, NEW size, NEW got,
             got = AllocSmall(mem, pool, size) \/ got = AllocLarge(mem, pool, size),
             AllocObject(got)
      PROVE  MemoryInv'
  <2>1. virt' = virt /\ grant' = grant /\ plan' = plan /\ error' = got.err
    BY <1>1 DEF AllocObject
  <2>2. got.err # "VIRTUAL_BUG"
    BY <1>1, AllocErrors
  <2>3. PlanOK'
    BY <2>1 DEF MemoryInv, PlanOK
  <2> QED
    BY <2>1, <2>2, <2>3, AlonePreserves
<1>2. ASSUME NEW a \in Arrays, RequestVirtArray(a) PROVE MemoryInv'
  <2>1. virt' = virt /\ grant' = grant /\ plan' = plan
        /\ error' = AllocSmall(mem, IMAGE, CONTROL).err
    BY <1>2 DEF RequestVirtArray
  <2>2. error' # "VIRTUAL_BUG" /\ PlanOK'
    BY <2>1, AllocErrors DEF MemoryInv, PlanOK
  <2> QED
    BY <2>1, <2>2, AlonePreserves
<1>3. CASE RealizeVirtArrays
  <2>1. virt' = virt /\ grant' = grant /\ error' = error
    BY <1>3 DEF RealizeVirtArrays
  <2>2. PlanOK'
    <3> DEFINE todo == {a \in Listed : ~virt[a].mem_buffer}
               avail == Available(MaxSpace(todo))
               heights == avail \div MinSpace(todo)
               h == IF avail >= MaxSpace(todo) THEN 1000000000
                    ELSE IF heights \in Nat \ {0} THEN heights ELSE 1
    <3>1. plan' = [todo |-> todo, arrays |-> todo, space |-> avail, max_minheights |-> h]
      BY <1>3 DEF RealizeVirtArrays
    <3>2. h \in Nat /\ h > 0
      <4> HIDE DEF avail, heights
      <4>1. heights \in Nat \ {0} => heights \in Nat /\ heights > 0
        OBVIOUS
      <4> QED
        BY <4>1
    <3>3. \A a \in Arrays : a \in todo => ~virt[a].mem_buffer
      OBVIOUS
    <3> HIDE DEF todo, avail, h
    <3> QED
      BY <3>1, <3>2, <3>3, <2>1 DEF PlanOK
  <2> QED
    BY <2>1, <2>2, AlonePreserves DEF MemoryInv
<1>4. ASSUME NEW a \in Arrays, NEW start \in Rows(a), NEW num \in 0..(Shape[a].maxaccess + 1),
             NEW writable \in BOOLEAN, AccessVirtArray(a, start, num, writable)
      PROVE  MemoryInv'
  <2>1. num \in Nat
    BY ShapeType
  <2> QED
    BY <1>4, <2>1, AccessPreserves
<1>5. CASE FreeImage \/ SelfDestruct
  BY <1>5, ClosePreserves DEF FreeImage, SelfDestruct
<1>6. CASE UNCHANGED vars
  <2>1. virt' = virt /\ grant' = grant /\ plan' = plan /\ error' = error
    BY <1>6 DEF vars
  <2>2. PlanOK' /\ error' # "VIRTUAL_BUG"
    BY <2>1 DEF MemoryInv, PlanOK
  <2> QED
    BY <2>1, <2>2, AlonePreserves
<1> QED
  BY <1>1, <1>2, <1>3, <1>4, <1>5, <1>6, RealizeArrayPreserves, WritePreserves DEF Next

\* The windows of the virtual arrays keep their invariant for arrays of any
\* size, any share of them in memory and any sequence of calls: what a caller
\* may use is in memory, zeroed or written, and will be saved (access_virt_sarray,
\* access_virt_barray, realize_virt_arrays).
THEOREM WindowsHold == Spec => []MemoryInv
<1>1. Init => MemoryInv
  BY InitInv
<1>2. MemoryInv /\ [Next]_vars => MemoryInv'
  BY StepInv
<1> QED
  BY <1>1, <1>2, PTL DEF Spec

\* The check for a window that cannot be moved, JERR_VIRTUAL_BUG, never fails.
THEOREM NoVirtualBug == Spec => [](error # "VIRTUAL_BUG")
<1>1. MemoryInv => error # "VIRTUAL_BUG"
  BY DEF MemoryInv
<1> QED
  BY <1>1, WindowsHold, PTL

-----------------------------------------------------------------------------
(* The books.                                                               *)

\* A pool accounts for its bytes; and all that malloc has given out is known.
PoolSet ==
  {p \in [size : Int, used : Int, left : Int] : p.size = p.used + p.left + HEADER}
PoolLists == [Pools -> Seq(PoolSet)]
MemSet ==
  {m \in [small : PoolLists, large : PoolLists, total_space_allocated : Int, held : Int] :
     m.total_space_allocated = m.held}
Errors == {"", "OUT_OF_MEMORY", "WIDTH_OVERFLOW"}
ResultSet == {Result(m, e) : m \in MemSet, e \in Errors}

LEMMA SizeType ==
  /\ HEADER \in Int /\ ALIGN \in Nat \ {0} /\ POINTER \in Nat \ {0} /\ CONTROL \in Nat
  /\ MAX_ALLOC_CHUNK \in Int
  /\ \A pool \in Pools : first_pool_slop[pool] \in Nat /\ extra_pool_slop[pool] \in Nat
  /\ \A size \in Nat : Rounded(size) \in Int
<1>1. /\ HEADER \in Int /\ ALIGN \in Nat \ {0} /\ POINTER \in Nat \ {0} /\ CONTROL \in Nat
      /\ MAX_ALLOC_CHUNK \in Int
      /\ \A pool \in Pools : first_pool_slop[pool] \in Nat /\ extra_pool_slop[pool] \in Nat
  BY SizeAssumption
<1>2. ASSUME NEW size \in Nat PROVE Rounded(size) \in Int
  <2>1. (size + ALIGN - 1) \div ALIGN \in Int
    BY <1>1
  <2> QED
    BY <1>1, <2>1 DEF Rounded
<1> QED
  BY <1>1, <1>2

LEMMA MemType ==
  ASSUME NEW m \in MemSet
  PROVE  /\ m \in [small : PoolLists, large : PoolLists, total_space_allocated : Int, held : Int]
         /\ m.small \in PoolLists /\ m.large \in PoolLists /\ m.held \in Int
         /\ m.total_space_allocated = m.held
  BY DEF MemSet

\* What an allocation or free_pool makes of mem.
LEMMA MemChanged ==
  ASSUME NEW m \in MemSet, NEW s, s \in PoolLists, NEW l, l \in PoolLists, NEW t, t \in Int,
         NEW n,
         n = [m EXCEPT !.small = s, !.large = l, !.total_space_allocated = t, !.held = t]
  PROVE  n \in MemSet
<1>1. m \in [small : PoolLists, large : PoolLists, total_space_allocated : Int, held : Int]
  BY MemType
<1>2. n \in [small : PoolLists, large : PoolLists, total_space_allocated : Int, held : Int]
      /\ n.total_space_allocated = n.held
  BY <1>1
<1> QED
  BY <1>2 DEF MemSet

LEMMA ResultMade ==
  ASSUME NEW m, m \in MemSet, NEW e, e \in Errors
  PROVE  Result(m, e) \in ResultSet
  BY DEF ResultSet

LEMMA PoolType ==
  ASSUME NEW p \in PoolSet
  PROVE  /\ p.size \in Int /\ p.used \in Int /\ p.left \in Int
         /\ p.size = p.used + p.left + HEADER
  BY DEF PoolSet

\* A pool of which something is used, and one that is new.
LEMMA PoolUsed ==
  ASSUME NEW p \in PoolSet, NEW size \in Int,
         NEW q, q = [p EXCEPT !.used = @ + size, !.left = @ - size]
  PROVE  q \in PoolSet
<1> DEFINE u == p.used + size
           l == p.left - size
<1>1. p \in [size : Int, used : Int, left : Int] /\ p.size = p.used + p.left + HEADER
  BY DEF PoolSet
<1>2. u \in Int /\ l \in Int /\ u + l + HEADER = p.size
  BY <1>1, SizeType
<1>3. q = [p EXCEPT !.used = u, !.left = l]
  OBVIOUS
<1> HIDE DEF u, l
<1>4. q \in [size : Int, used : Int, left : Int] /\ q.size = p.size /\ q.used = u /\ q.left = l
  BY <1>1, <1>2, <1>3
<1> QED
  BY <1>2, <1>4 DEF PoolSet

LEMMA PoolMade ==
  ASSUME NEW size \in Int, NEW used \in Int, NEW left \in Int, size = used + left + HEADER
  PROVE  [size |-> size, used |-> used, left |-> left] \in PoolSet
  BY DEF PoolSet

\* A list of pools that one is put into, put at the end of, or changed in.
LEMMA PoolsChanged ==
  ASSUME NEW of \in PoolLists, NEW pool \in Pools, NEW s \in Seq(PoolSet)
  PROVE  [of EXCEPT ![pool] = s] \in PoolLists /\ of[pool] \in Seq(PoolSet)
  BY DEF PoolLists

\* alloc_small keeps the books, whether it finds room, gets a new pool or fails.
LEMMA SmallBooks ==
  ASSUME NEW m \in MemSet, NEW pool \in Pools, NEW sizeofobject \in Nat
  PROVE  AllocSmall(m, pool, sizeofobject) \in ResultSet
<1> DEFINE size == Rounded(sizeofobject)
           room == {i \in DOMAIN m.small[pool] : m.small[pool][i].left >= size}
           slops == {s \in Slops(FirstSlop(m, pool, size)) : Got(m, size + HEADER + s)}
           got == AllocSmall(m, pool, sizeofobject)
<1>1. size \in Int /\ HEADER \in Int
  BY SizeType
<1>2. /\ m \in [small : PoolLists, large : PoolLists, total_space_allocated : Int, held : Int]
      /\ m.small \in PoolLists /\ m.large \in PoolLists /\ m.held \in Int
      /\ m.total_space_allocated = m.held /\ m.small[pool] \in Seq(PoolSet)
  BY MemType DEF PoolLists
<1>3. Result(m, "OUT_OF_MEMORY") \in ResultSet /\ "" \in Errors
  BY ResultMade DEF Errors
<1>4. CASE sizeofobject > MAX_ALLOC_CHUNK - HEADER
  BY <1>3, <1>4 DEF AllocSmall
<1>5. CASE ~(sizeofobject > MAX_ALLOC_CHUNK - HEADER) /\ room # {}
  <2> DEFINE i == Min(room)
             p == m.small[pool][i]
             q == [p EXCEPT !.used = @ + size, !.left = @ - size]
             s == [m.small[pool] EXCEPT ![i] = q]
             ss == [m.small EXCEPT ![pool] = s]
             n == [m EXCEPT !.small[pool][i].used = @ + size, !.small[pool][i].left = @ - size]
  <2>1. i \in DOMAIN m.small[pool]
    <3>1. room \in SUBSET (1..Len(m.small[pool])) /\ IsFiniteSet(1..Len(m.small[pool]))
          /\ 1..Len(m.small[pool]) \subseteq Int
      BY <1>2, FS_Interval
    <3> HIDE DEF room
    <3>2. Min(room) \in room
      BY <1>5, <3>1, MinMember, Zenon
    <3> QED
      BY <3>2 DEF room
  <2>2. got = Result(n, "")
    BY <1>5 DEF AllocSmall
  <2> HIDE DEF room, size, i, got
  <2>3. p \in PoolSet
    BY <1>2, <2>1
  <2>4. q \in PoolSet
    <3> HIDE DEF p
    <3> QED
      BY <1>1, <2>3, PoolUsed
  <2>5. s \in Seq(PoolSet)
    <3> HIDE DEF q
    <3> QED
      BY <1>2, <2>1, <2>4
  <2>6. ss \in PoolLists
    <3> HIDE DEF s
    <3> QED
      BY <1>2, <2>5, PoolsChanged
  <2>7. n = [m EXCEPT !.small = ss, !.large = m.large, !.total_space_allocated = m.held,
                      !.held = m.held]
    <3>1. p \in [size : Int, used : Int, left : Int] /\ pool \in DOMAIN m.small
      BY <1>2, <2>3 DEF PoolLists, PoolSet
    <3> QED
      BY <1>2, <2>1, <3>1
  <2> HIDE DEF n, ss
  <2>8. n \in MemSet
    BY <1>2, <2>6, <2>7, MemChanged, Zenon
  <2>9. Result(n, "") \in ResultSet
    BY <1>3, <2>8, ResultMade
  <2> QED
    BY <2>2, <2>9 DEF got
<1>6. CASE ~(sizeofobject > MAX_ALLOC_CHUNK - HEADER) /\ room = {} /\ slops = {}
  BY <1>3, <1>6 DEF AllocSmall
<1>7. CASE ~(sizeofobject > MAX_ALLOC_CHUNK - HEADER) /\ room = {} /\ slops # {}
  <2> DEFINE slop == Max(slops)
             first == FirstSlop(m, pool, size)
             bytes == size + HEADER + slop
             n == NewPool(m, pool, size, slop)
             p == [size |-> bytes, used |-> size, left |-> slop]
             ss == [m.small EXCEPT ![pool] = Append(m.small[pool], p)]
             held == m.held + bytes
  <2>1. first \in Int
    <3>1. first_pool_slop[pool] \in Int /\ extra_pool_slop[pool] \in Int
      BY SizeType
    <3> QED
      BY <1>1, <3>1, SizeType DEF FirstSlop
  <2>2. slop \in Int
    <3> HIDE DEF first, size
    <3>1. Slops(first) \subseteq 0..first
      BY Zenon DEF Slops
    <3>2. slops \in SUBSET (0..first) /\ IsFiniteSet(0..first) /\ 0..first \subseteq Int
      BY <2>1, <3>1, FS_Interval DEF first
    <3> HIDE DEF slops
    <3>3. Max(slops) \in slops
      BY <1>7, <3>2, MaxMember, Zenon
    <3> QED
      BY <3>2, <3>3
  <2>3. got = Result(n, "")
    BY <1>7 DEF AllocSmall
  <2> HIDE DEF slop, size, got
  <2>4. bytes \in Int /\ bytes = size + slop + HEADER /\ held \in Int
    BY <1>1, <1>2, <2>2
  <2>5. n = [m EXCEPT !.total_space_allocated = @ + bytes, !.held = @ + bytes,
                      !.small[pool] = Append(@, p)]
    BY DEF NewPool
  <2> HIDE DEF bytes
  <2>6. p \in PoolSet
    BY <1>1, <2>2, <2>4, PoolMade
  <2> HIDE DEF p
  <2>7. ss \in PoolLists
    <3>1. Append(m.small[pool], p) \in Seq(PoolSet)
      BY <1>2, <2>6
    <3> QED
      BY <1>2, <3>1, PoolsChanged
  <2>8. n = [m EXCEPT !.small = ss, !.large = m.large, !.total_space_allocated = held,
                      !.held = held]
    BY <1>2, <2>5 DEF PoolLists
  <2> HIDE DEF n, ss, held
  <2>9. n \in MemSet
    BY <1>2, <2>4, <2>7, <2>8, MemChanged, Zenon
  <2>10. Result(n, "") \in ResultSet
    BY <1>3, <2>9, ResultMade
  <2> QED
    BY <2>3, <2>10 DEF got
<1> QED
  BY <1>4, <1>5, <1>6, <1>7

\* alloc_large does, too.
LEMMA LargeBooks ==
  ASSUME NEW m \in MemSet, NEW pool \in Pools, NEW sizeofobject \in Nat
  PROVE  AllocLarge(m, pool, sizeofobject) \in ResultSet
<1> DEFINE bytes == Rounded(sizeofobject) + HEADER
           p == [size |-> bytes, used |-> bytes - HEADER, left |-> 0]
           n == [m EXCEPT !.total_space_allocated = @ + bytes, !.held = @ + bytes,
                          !.large[pool] = <<p>> \o @]
           ll == [m.large EXCEPT ![pool] = <<p>> \o m.large[pool]]
           held == m.held + bytes
           fails == sizeofobject > MAX_ALLOC_CHUNK - HEADER \/ ~Got(m, bytes)
<1>1. /\ m \in [small : PoolLists, large : PoolLists, total_space_allocated : Int, held : Int]
      /\ m.small \in PoolLists /\ m.large \in PoolLists /\ m.held \in Int
      /\ m.total_space_allocated = m.held /\ m.large[pool] \in Seq(PoolSet)
  BY MemType DEF PoolLists
<1>2. AllocLarge(m, pool, sizeofobject) = IF fails THEN Result(m, "OUT_OF_MEMORY") ELSE Result(n, "")
  BY DEF AllocLarge
<1>3. bytes \in Int /\ bytes = (bytes - HEADER) + 0 + HEADER /\ bytes - HEADER \in Int
  BY SizeType
<1> HIDE DEF bytes
<1>4. held \in Int
  BY <1>1, <1>3
<1>5. p \in PoolSet
  BY <1>3, PoolMade
<1> HIDE DEF p
<1>6. ll \in PoolLists
  <2>1. <<p>> \o m.large[pool] \in Seq(PoolSet)
    BY <1>1, <1>5
  <2> QED
    BY <1>1, <2>1, PoolsChanged
<1>7. n = [m EXCEPT !.small = m.small, !.large = ll, !.total_space_allocated = held, !.held = held]
  BY <1>1 DEF PoolLists
<1> HIDE DEF n, ll, held, fails
<1>8. n \in MemSet
  BY <1>1, <1>4, <1>6, <1>7, MemChanged, Zenon
<1>9. Result(n, "") \in ResultSet /\ Result(m, "OUT_OF_MEMORY") \in ResultSet
  <2>1. "" \in Errors /\ "OUT_OF_MEMORY" \in Errors
    BY DEF Errors
  <2> QED
    BY <1>8, <2>1, ResultMade
<1> QED
  BY <1>2, <1>9

\* alloc_sarray and alloc_barray do, wherever they fail: behind some of the rows,
\* too.
LEMMA ArrayBooks ==
  ASSUME NEW m \in MemSet, NEW pool \in Pools, NEW width \in Nat \ {0}, NEW numrows \in Nat \ {0}
  PROVE  AllocArray(m, pool, width, numrows) \in ResultSet
<1> DEFINE ltemp == (MAX_ALLOC_CHUNK - HEADER) \div width
           chunk == IF ltemp < numrows THEN ltemp ELSE numrows
           N == (numrows + chunk - 1) \div chunk
           chunks == [i \in 1..N |-> IF i*chunk <= numrows THEN chunk ELSE numrows - (i - 1)*chunk]
           Turn(res, rows) == IF res.err # "" THEN res ELSE AllocLarge(res.m, pool, rows*width)
           first == AllocSmall(m, pool, numrows*POINTER)
           all == FoldLeft(Turn, first, chunks)
<1>1. CASE ltemp <= 0
  <2>1. AllocArray(m, pool, width, numrows) = Result(m, "WIDTH_OVERFLOW")
    BY <1>1 DEF AllocArray
  <2>2. "WIDTH_OVERFLOW" \in Errors
    BY DEF Errors
  <2> QED
    BY <2>1, <2>2, ResultMade
<1>2. CASE ~(ltemp <= 0)
  <2>1. AllocArray(m, pool, width, numrows)
          = Result(all.m, IF all.err = "" THEN "" ELSE "OUT_OF_MEMORY")
    BY <1>2, Zenon DEF AllocArray
  <2>2. ltemp \in Nat \ {0}
    BY <1>2, SizeType
  <2> HIDE DEF ltemp
  <2>3. chunk \in Nat \ {0}
    BY <2>2
  <2> HIDE DEF chunk
  <2>4. N \in Int
    BY <2>3
  <2>5. N*chunk <= numrows + chunk - 1
    BY <2>3
  <2> HIDE DEF N
  <2>6. \A i \in 1..N : chunks[i] \in Nat
    <3> SUFFICES ASSUME NEW i \in 1..N PROVE chunks[i] \in Nat
      OBVIOUS
    <3>1. i*chunk <= N*chunk /\ (i - 1)*chunk = i*chunk - chunk /\ i*chunk \in Int
          /\ N*chunk \in Int
      BY <2>3, <2>4
    <3>2. (i - 1)*chunk <= numrows /\ (i - 1)*chunk \in Int
      BY <2>3, <2>5, <3>1
    <3>3. numrows - (i - 1)*chunk \in Nat
      BY <3>2
    <3> QED
      BY <2>3, <3>3
  <2> DEFINE S == 1..N
             step == [T \in SUBSET S |-> [r \in ResultSet |->
                        IF T = {} THEN r ELSE Turn(r, chunks[Max(T)])]]
             c == [T \in SUBSET S |-> Max(T)]
             IsTurns(g) == g = [T \in SUBSET S |->
                             IF T = {} THEN first ELSE Turn(g[T \ {Max(T)}], chunks[Max(T)])]
             g == CHOOSE g : IsTurns(g)
  <2>7. all = g[S]
    <3>1. DOMAIN chunks = S
      OBVIOUS
    <3> HIDE DEF chunks, first, S
    <3> QED
      BY <3>1, Zenon DEF FoldLeft, MapThenFoldSet
  <2>8. IsFiniteSet(S) /\ S \subseteq Int
    BY <2>4, FS_Interval
  <2>9. \A T \in SUBSET S : T # {} => Max(T) \in T /\ chunks[Max(T)] \in Nat
    <3> HIDE DEF chunks, S
    <3>1. \A T \in SUBSET S : T # {} => Max(T) \in T
      BY <2>8, MaxMember
    <3> QED
      BY <2>6, <3>1 DEF S
  <2>10. first \in ResultSet
    <3>1. numrows*POINTER \in Nat
      BY SizeType
    <3> QED
      BY <3>1, SmallBooks
  <2> HIDE DEF chunks, first, S
  <2>11. ASSUME NEW r \in ResultSet, NEW rows \in Nat PROVE Turn(r, rows) \in ResultSet
    <3>1. PICK k \in MemSet, e \in Errors : r = Result(k, e)
      BY DEF ResultSet
    <3>2. r.m = k
      BY <3>1 DEF Result
    <3>3. rows*width \in Nat
      OBVIOUS
    <3>4. AllocLarge(r.m, pool, rows*width) \in ResultSet
      BY <3>2, <3>3, LargeBooks
    <3> QED
      BY <3>4
  <2> HIDE DEF Turn
  <2>12. step \in [SUBSET S -> [ResultSet -> ResultSet]]
    BY <2>9, <2>11
  <2>13. Chooses(c, S)
    BY <2>9 DEF Chooses
  <2>14. PICK h \in [SUBSET S -> ResultSet] : FoldsTo(h, S, first, step, c)
    <3> HIDE DEF step, c
    <3> QED
      BY <2>8, <2>10, <2>12, <2>13, Recursion, Zenon
  <2>15. IsTurns(h)
    <3>1. ASSUME NEW T \in SUBSET S
          PROVE  h[T] = IF T = {} THEN first ELSE Turn(h[T \ {Max(T)}], chunks[Max(T)])
      <4>1. c[T] = Max(T)
        OBVIOUS
      <4>2. h[T \ {c[T]}] \in ResultSet
        BY <2>14
      <4>3. h[T] = IF T = {} THEN first ELSE step[T][h[T \ {c[T]}]]
        BY <2>14 DEF FoldsTo
      <4>4. step[T][h[T \ {c[T]}]]
              = IF T = {} THEN h[T \ {c[T]}] ELSE Turn(h[T \ {c[T]}], chunks[Max(T)])
        BY <4>2
      <4> QED
        BY <4>1, <4>3, <4>4
    <3> QED
      BY <3>1
  <2>16. IsTurns(g)
    <3> HIDE DEF IsTurns
    <3> QED
      BY <2>15, Zenon
  <2> DEFINE G == {T \in SUBSET S : g[T] \in ResultSet}
  <2>17. ASSUME NEW T \in SUBSET S, \A x \in T : T \ {x} \in G PROVE T \in G
    <3>1. g[T] = IF T = {} THEN first ELSE Turn(g[T \ {Max(T)}], chunks[Max(T)])
      BY <2>16, Zenon
    <3>2. T # {} => g[T \ {Max(T)}] \in ResultSet /\ chunks[Max(T)] \in Nat
      BY <2>9, <2>17
    <3> HIDE DEF g
    <3>3. g[T] \in ResultSet
      BY <2>10, <2>11, <3>1, <3>2
    <3> QED
      BY <3>3
  <2>18. g[S] \in ResultSet
    <3>1. \A T \in SUBSET S : (\A x \in T : T \ {x} \in G) => T \in G
      BY <2>17, Zenon
    <3> HIDE DEF G
    <3>2. \A T \in SUBSET S : T \in G
      BY <2>8, <3>1, SubsetInduction, Zenon
    <3> QED
      BY <3>2 DEF G
  <2> HIDE DEF all, g
  <2>19. PICK k \in MemSet, e \in Errors : all = Result(k, e)
    BY <2>7, <2>18 DEF ResultSet
  <2>20. all.m = k
    BY <2>19 DEF Result
  <2>21. "" \in Errors /\ "OUT_OF_MEMORY" \in Errors
    BY DEF Errors
  <2> DEFINE end == IF all.err = "" THEN "" ELSE "OUT_OF_MEMORY"
  <2>22. end \in Errors /\ all.m \in MemSet
    BY <2>20, <2>21
  <2>23. AllocArray(m, pool, width, numrows) = Result(all.m, end)
    BY <2>1
  <2> HIDE DEF end
  <2> QED
    BY <2>22, <2>23, ResultMade
<1> QED
  BY <1>1, <1>2

\* free_pool takes off what was given out, since each pool accounts for its bytes.
LEMMA FreedBooks ==
  ASSUME NEW m \in MemSet, NEW pool \in Pools
  PROVE  Freed(m, pool) \in MemSet
<1> DEFINE all == m.small[pool] \o m.large[pool]
           n == Len(all)
           d == [i \in 1..n |-> all[i].size]
           left1 == FoldLeft(LAMBDA t, p : t - (p.used + p.left + HEADER),
                             m.total_space_allocated, all)
           left2 == FoldLeft(LAMBDA t, p : t - p.size, m.held, all)
           b == m.held
           IsLeft1(g) == g = [T \in SUBSET (1..n) |-> IF T = {} THEN m.total_space_allocated
              ELSE g[T \ {Max(T)}] - (all[Max(T)].used + all[Max(T)].left + HEADER)]
           IsLeft2(g) == g = [T \in SUBSET (1..n) |-> IF T = {} THEN m.held
              ELSE g[T \ {Max(T)}] - all[Max(T)].size]
           g1 == CHOOSE g : IsLeft1(g)
           g2 == CHOOSE g : IsLeft2(g)
<1>1. /\ m \in [small : PoolLists, large : PoolLists, total_space_allocated : Int, held : Int]
      /\ m.small \in PoolLists /\ m.large \in PoolLists /\ m.held \in Int
      /\ m.total_space_allocated = m.held
      /\ m.small[pool] \in Seq(PoolSet) /\ m.large[pool] \in Seq(PoolSet)
  BY MemType DEF PoolLists
<1>2. all \in Seq(PoolSet) /\ DOMAIN all = 1..n /\ n \in Nat
  <2>1. all \in Seq(PoolSet)
    BY <1>1
  <2> HIDE DEF all
  <2> QED
    BY <2>1
<1>3. left1 = g1[1..n] /\ left2 = g2[1..n]
  <2>1. DOMAIN all = 1..n
    BY <1>2
  <2> HIDE DEF all, n
  <2> QED
    BY <2>1, Zenon DEF FoldLeft, MapThenFoldSet
<1> HIDE DEF all, n
<1>4. \A i \in 1..n : all[i].size \in Int /\ all[i].size = all[i].used + all[i].left + HEADER
  BY <1>2, PoolType
<1>5. d \in [1..n -> Int]
  BY <1>4
<1>6. \A T \in SUBSET (1..n) : T # {} =>
        all[Max(T)].used + all[Max(T)].left + HEADER = d[Max(T)] /\ all[Max(T)].size = d[Max(T)]
  <2>1. IsFiniteSet(1..n) /\ 1..n \subseteq Int
    BY <1>2, FS_Interval
  <2>2. \A T \in SUBSET (1..n) : T # {} => Max(T) \in 1..n
    BY <2>1, MaxMember
  <2> QED
    BY <1>4, <2>2
<1> HIDE DEF d
<1>7. \A g : (IsLeft1(g) <=> IsLeft(g, b, d, n)) /\ (IsLeft2(g) <=> IsLeft(g, b, d, n))
  BY <1>1, <1>6 DEF IsLeft
<1> HIDE DEF IsLeft1, IsLeft2
<1>8. PICK r \in Int : \A g : IsLeft(g, b, d, n) => g[1..n] = r
  BY <1>1, <1>2, <1>5, WhatIsLeft
<1>9. \E g : IsLeft(g, b, d, n)
  BY <1>1, <1>2, <1>5, WhatIsLeft
<1>10. IsLeft1(g1) /\ IsLeft2(g2)
  BY <1>7, <1>9, Zenon
<1>11. g1[1..n] = r /\ g2[1..n] = r
  BY <1>7, <1>8, <1>10
<1> HIDE DEF g1, g2, left1, left2, b
<1>12. Freed(m, pool) = [m EXCEPT !.small[pool] = <<>>, !.large[pool] = <<>>,
                                  !.total_space_allocated = left1, !.held = left2]
  BY Zenon DEF Freed, left1, left2, all
<1> DEFINE s == [m.small EXCEPT ![pool] = <<>>]
           l == [m.large EXCEPT ![pool] = <<>>]
<1>13. Freed(m, pool) = [m EXCEPT !.small = s, !.large = l, !.total_space_allocated = r,
                                  !.held = r]
  <2>1. left1 = r /\ left2 = r
    BY <1>3, <1>11
  <2>2. Freed(m, pool) = [m EXCEPT !.small[pool] = <<>>, !.large[pool] = <<>>,
                                   !.total_space_allocated = r, !.held = r]
    BY <1>12, <2>1
  <2>3. pool \in DOMAIN m.small /\ pool \in DOMAIN m.large
    BY <1>1 DEF PoolLists
  <2> QED
    BY <1>1, <2>2, <2>3
<1>14. s \in PoolLists /\ l \in PoolLists
  <2>1. <<>> \in Seq(PoolSet)
    OBVIOUS
  <2> QED
    BY <1>1, <2>1, PoolsChanged
<1> HIDE DEF s, l
<1>15. r \in Int
  BY <1>8
<1> QED
  BY <1>13, <1>14, <1>15, MemChanged

-----------------------------------------------------------------------------
(* The lists, the temporary files and the share of memory.                   *)

\* A temporary file belongs to an array on the lists, which is in memory but
\* when its allocation has just failed.
FilesInv ==
  /\ lists \in [s : Seq(Arrays), b : Seq(Arrays)] /\ IsFiniteSet(Listed)
  /\ plan.todo \subseteq Listed
  /\ files = {a \in Listed : virt[a].b_s_open}
  /\ \A a \in Arrays : virt[a].b_s_open =>
       a \in Listed /\ a \notin plan.todo /\ (error = "" => virt[a].mem_buffer)

\* No array realized has more rows than it needs, or than max_minheights allows;
\* and either all rows of the arrays fit the space, or so many do.
HeightsFit(arrays, space, heights) ==
  \/ arrays = {}
  \/ MaxSpace(arrays) <= space
  \/ heights*MinSpace(arrays) <= space
  \/ heights = 1

SpaceInv ==
  /\ plan.arrays \subseteq Arrays /\ IsFiniteSet(plan.arrays) /\ plan.space \in Int
  /\ \A a \in plan.arrays : virt[a].mem_buffer =>
       /\ virt[a].rows_in_mem <= Shape[a].rows_in_array
       /\ virt[a].rows_in_mem <= plan.max_minheights*Shape[a].maxaccess
  /\ HeightsFit(plan.arrays, plan.space, plan.max_minheights)

BooksInv ==
  /\ MemoryInv /\ system \in Systems
  /\ mem \in MemSet /\ FilesInv /\ SpaceInv

\* What Accounted and Parcelled say follows.
LEMMA BooksAccount == BooksInv => Accounted
  BY MemType DEF BooksInv, FilesInv, Accounted

LEMMA SpaceType ==
  ASSUME NEW S, IsFiniteSet(S), S \subseteq Arrays
  PROVE  /\ MaxSpace(S) = Total([a \in S |-> Shape[a].rows_in_array*Shape[a].width])
         /\ MinSpace(S) = Total([a \in S |-> Shape[a].maxaccess*Shape[a].width])
         /\ MaxSpace(S) \in Nat /\ MinSpace(S) \in Nat
         /\ S # {} => MinSpace(S) > 0
<1> DEFINE f == [a \in S |-> Shape[a].rows_in_array*Shape[a].width]
           g == [a \in S |-> Shape[a].maxaccess*Shape[a].width]
<1>1. MaxSpace(S) = Total(f) /\ MinSpace(S) = Total(g)
  BY Zenon DEF MaxSpace, MinSpace, SumOver, Total
<1>2. \A a \in S : f[a] \in Nat /\ g[a] \in Nat /\ g[a] > 0
  <2> SUFFICES ASSUME NEW a \in S PROVE f[a] \in Nat /\ g[a] \in Nat /\ g[a] > 0
    OBVIOUS
  <2>1. /\ Shape[a].rows_in_array \in Nat \ {0} /\ Shape[a].maxaccess \in Nat \ {0}
        /\ Shape[a].width \in Nat \ {0}
    BY ShapeType
  <2> QED
    BY <2>1
<1>3. DOMAIN f = S /\ DOMAIN g = S
  OBVIOUS
<1> HIDE DEF f, g
<1>4. Total(f) \in Nat /\ Total(g) \in Nat
  BY <1>2, <1>3, TotalSmaller
<1>5. S # {} => Total(g) > 0
  <2> SUFFICES ASSUME NEW a \in S PROVE Total(g) > 0
    OBVIOUS
  <2>1. g[a] <= Total(g)
    BY <1>2, <1>3, TotalMember
  <2> QED
    BY <1>2, <1>4, <2>1
<1> QED
  BY <1>1, <1>4, <1>5 DEF f, g

LEMMA BooksParcel == BooksInv => Parcelled
<1> SUFFICES ASSUME BooksInv PROVE Parcelled
  OBVIOUS
<1> DEFINE A == plan.arrays
           D == {a \in A : virt[a].mem_buffer}
           h == plan.max_minheights
           f == [a \in D |-> virt[a].rows_in_mem*Shape[a].width]
           most == [a \in A |-> Shape[a].rows_in_array*Shape[a].width]
           least == [a \in A |-> Shape[a].maxaccess*Shape[a].width]
           share == [a \in A |-> h*least[a]]
<1>1. /\ A \subseteq Arrays /\ IsFiniteSet(A) /\ plan.space \in Int /\ h \in Nat
      /\ HeightsFit(A, plan.space, h)
  BY DEF BooksInv, SpaceInv, MemoryInv, PlanOK
<1>2. Parcelled <=> Total(f) <= plan.space \/ Total(f) <= MinSpace(A)
  BY Zenon DEF Parcelled, SumOver, Total
<1>3. /\ MaxSpace(A) = Total(most) /\ MinSpace(A) = Total(least)
      /\ MaxSpace(A) \in Nat /\ MinSpace(A) \in Nat
  BY <1>1, SpaceType
<1>4. ASSUME NEW a \in A
      PROVE  /\ most[a] \in Nat /\ least[a] \in Nat /\ h*least[a] \in Nat
             /\ a \in D =>
                  /\ f[a] \in Int /\ f[a] <= most[a] /\ f[a] <= h*least[a]
                  /\ h = 1 => f[a] <= least[a]
  <2> DEFINE n == virt[a].rows_in_mem
             rows == Shape[a].rows_in_array
             w == Shape[a].width
             x == Shape[a].maxaccess
  <2>1. rows \in Nat /\ w \in Nat /\ x \in Nat
    BY <1>1, ShapeType
  <2>2. n \in Nat
    BY <1>1 DEF BooksInv, MemoryInv, BlockOK
  <2>3. a \in D => n <= rows /\ n <= h*x
    BY DEF BooksInv, SpaceInv
  <2>4. most[a] = rows*w /\ least[a] = x*w /\ (a \in D => f[a] = n*w)
    OBVIOUS
  <2> HIDE DEF n, rows, w, x, f, most, least, D
  <2>5. rows*w \in Nat /\ x*w \in Nat /\ h*(x*w) \in Nat /\ n*w \in Nat /\ h*x \in Nat
    BY <1>1, <2>1, <2>2
  <2>6. (h*x)*w = h*(x*w)
    BY <1>1, <2>1
  <2>7. n <= rows => n*w <= rows*w
    BY <2>1, <2>2
  <2>8. n <= h*x => n*w <= (h*x)*w
    <3> DEFINE y == h*x
    <3>1. y \in Nat
      BY <2>5
    <3> HIDE DEF y
    <3>2. n <= y => n*w <= y*w
      BY <2>1, <2>2, <3>1
    <3> QED
      BY <3>2 DEF y
  <2>9. h = 1 => h*(x*w) = x*w
    BY <2>5
  <2> QED
    BY <2>3, <2>4, <2>5, <2>6, <2>7, <2>8, <2>9
<1>5. D \in SUBSET A /\ DOMAIN f = D /\ DOMAIN most = A /\ DOMAIN least = A /\ DOMAIN share = A
  OBVIOUS
<1>6. \A a \in A : share[a] \in Nat /\ share[a] = h*least[a] /\ least[a] \in Int
  <2> HIDE DEF least, most, f, D
  <2>1. \A a \in A : share[a] = h*least[a]
    OBVIOUS
  <2> HIDE DEF share
  <2> QED
    BY <1>4, <2>1
<1>7. Total(share) = h*Total(least)
  <2>1. h \in Int
    BY <1>1
  <2> HIDE DEF least
  <2> QED
    BY <1>1, <1>5, <1>6, <2>1, TotalScaled
<1> HIDE DEF D, f, most, least, share, A, h
<1>8. Total(f) \in Int /\ Total(f) <= Total(most) /\ Total(f) <= Total(share)
  <2>1. /\ \A a \in D : f[a] \in Int /\ f[a] <= most[a] /\ f[a] <= share[a]
        /\ \A a \in A : most[a] \in Nat /\ share[a] \in Nat
    BY <1>4, <1>5, <1>6
  <2>2. Total(f) \in Int /\ Total(f) <= Total(most)
    BY <1>1, <1>5, <2>1, TotalSmaller
  <2>3. Total(f) <= Total(share)
    BY <1>1, <1>5, <2>1, TotalSmaller
  <2> QED
    BY <2>2, <2>3
<1>9. CASE A = {} \/ h = 1
  <2>1. /\ \A a \in D : f[a] \in Int /\ f[a] <= least[a]
        /\ \A a \in A : least[a] \in Nat
    BY <1>4, <1>5, <1>9
  <2>2. Total(f) <= Total(least)
    BY <1>1, <1>5, <2>1, TotalSmaller
  <2> QED
    BY <1>2, <1>3, <2>2
<1>10. CASE MaxSpace(A) <= plan.space
  BY <1>1, <1>2, <1>3, <1>8, <1>10
<1>11. CASE h*MinSpace(A) <= plan.space
  <2>1. Total(share) \in Int
    BY <1>1, <1>3, <1>7
  <2> QED
    BY <1>1, <1>2, <1>3, <1>7, <1>8, <1>11, <2>1
<1>12. HeightsFit(A, plan.space, h)
  BY <1>1
<1> QED
  BY <1>9, <1>10, <1>11, <1>12, Zenon DEF HeightsFit

\* An access changes neither how much of an array is in memory nor its file.
SameShare(v, w) ==
  /\ w.mem_buffer = v.mem_buffer /\ w.b_s_open = v.b_s_open /\ w.rows_in_mem = v.rows_in_mem

LEMMA AccessShare ==
  ASSUME NEW a \in Arrays, NEW v, Good(a, v), NEW start, NEW num, NEW writable
  PROVE  SameShare(v, Accessed(a, v, start, num, writable))
<1> DEFINE end == start + num
           m == Moved(a, v, start, end)
           block == [mem_buffer : BOOLEAN, dirty : BOOLEAN, b_s_open : BOOLEAN,
                     rows_in_mem : Nat, cur_start_row : Nat, first_undef_row : Nat,
                     buffer : {v.buffer}, file : {v.file}]
           Named(w) == DOMAIN w = {"mem_buffer", "dirty", "b_s_open", "rows_in_mem",
                                   "cur_start_row", "first_undef_row", "buffer", "file"}
<1>1. Named(v) /\ Good(a, Flushed(a, v)) /\ SameWindow(v, Flushed(a, v))
  BY FlushedKeeps DEF Good, BlockOK
<1>2. Named(m) /\ SameShare(v, m)
  <2>1. CASE ~Outside(v, start, end)
    BY <1>1, <2>1 DEF Moved, SameShare
  <2>2. CASE Outside(v, start, end)
    <3> DEFINE f == Flushed(a, v)
               g == [f EXCEPT !.cur_start_row = NewStart(v, start, end)]
    <3>1. Named(f) /\ SameShare(v, f)
      BY <1>1 DEF Good, BlockOK, SameWindow, SameShare
    <3>2. m = Read(a, g)
      BY <2>2 DEF Moved
    <3> HIDE DEF f
    <3>3. Named(g) /\ SameShare(f, g)
      BY <3>1 DEF SameShare
    <3> HIDE DEF g, m
    <3>4. Named(m) /\ SameShare(g, m)
      BY <3>2, <3>3 DEF Read, SameShare
    <3> QED
      BY <3>1, <3>3, <3>4 DEF SameShare
  <2> QED
    BY <2>1, <2>2
<1>3. ASSUME NEW u, Named(u) PROVE SameShare(u, Opening(a, u, start, end, writable))
  <2> DEFINE from == IF u.first_undef_row < start THEN start ELSE u.first_undef_row
             fresh == u.first_undef_row < end
             z == IF fresh /\ Shape[a].pre_zero THEN Zeroed(u, from, end) ELSE u
  <2>1. Named(z) /\ SameShare(u, z)
    <3>1. Named(Zeroed(u, from, end)) /\ SameShare(u, Zeroed(u, from, end))
      BY <1>3 DEF Zeroed, SameShare
    <3> QED
      BY <1>3, <3>1 DEF SameShare
  <2>2. Opening(a, u, start, end, writable) =
          IF writable THEN [z EXCEPT !.dirty = TRUE, !.first_undef_row = IF fresh THEN end ELSE @]
          ELSE z
    BY Zenon DEF Opening
  <2> HIDE DEF z, fresh
  <2>3. SameShare(z, [z EXCEPT !.dirty = TRUE, !.first_undef_row = IF fresh THEN end ELSE @])
    BY <2>1 DEF SameShare
  <2> QED
    BY <2>1, <2>2, <2>3 DEF SameShare
<1> HIDE DEF m, Named
<1>4. Accessed(a, v, start, num, writable) \in {v, m, Opening(a, m, start, end, writable)}
  BY DEF Accessed, m
<1>5. SameShare(m, Opening(a, m, start, end, writable))
  BY <1>2, <1>3
<1> QED
  BY <1>2, <1>4, <1>5 DEF SameShare

\* Of what the invariants of files and space depend on.
LEMMA OneShare ==
  ASSUME MemoryInv, NEW a \in Arrays, NEW w, virt' = [virt EXCEPT ![a] = w],
         SameShare(virt[a], w)
  PROVE  \A x \in Arrays : SameShare(virt[x], virt'[x])
<1>1. virt'[a] = w /\ \A x \in Arrays \ {a} : virt'[x] = virt[x]
  BY DEF MemoryInv
<1> QED
  BY <1>1 DEF SameShare

\* The lists hold arrays, and stay as they are.
LEMMA ListedType ==
  ASSUME FilesInv
  PROVE  lists.s \in Seq(Arrays) /\ lists.b \in Seq(Arrays) /\ Listed \subseteq Arrays
<1>1. lists.s \in Seq(Arrays) /\ lists.b \in Seq(Arrays)
  BY DEF FilesInv
<1>2. Range(lists.s) \subseteq Arrays /\ Range(lists.b) \subseteq Arrays
  BY <1>1 DEF Range
<1> QED
  BY <1>1, <1>2 DEF Listed

LEMMA SameListed == ASSUME lists' = lists PROVE Listed' = Listed
  BY DEF Listed

\* What is open, realized and shared is as before where every array's share is.
LEMMA FilesKept ==
  ASSUME FilesInv, \A x \in Arrays : SameShare(virt[x], virt'[x]),
         error = "" \/ error' # "", UNCHANGED <<lists, files, plan>>
  PROVE  FilesInv'
<1>1. Listed' = Listed /\ Listed \subseteq Arrays
  BY SameListed, ListedType
<1>2. \A x \in Arrays : virt'[x].b_s_open = virt[x].b_s_open
                        /\ virt'[x].mem_buffer = virt[x].mem_buffer
  BY DEF SameShare
<1>3. \A x \in Listed : virt'[x].b_s_open = virt[x].b_s_open
  BY <1>1, <1>2
<1>4. {x \in Listed' : virt'[x].b_s_open} = {x \in Listed : virt[x].b_s_open}
  BY <1>1, <1>3
<1>5. files' = {x \in Listed' : virt'[x].b_s_open}
  BY <1>4 DEF FilesInv
<1>6. /\ lists' \in [s : Seq(Arrays), b : Seq(Arrays)] /\ IsFiniteSet(Listed')
      /\ plan'.todo \subseteq Listed'
  BY <1>1 DEF FilesInv
<1>7. \A x \in Arrays : virt'[x].b_s_open =>
        x \in Listed' /\ x \notin plan'.todo /\ (error' = "" => virt'[x].mem_buffer)
  BY <1>1, <1>2 DEF FilesInv
<1> QED
  BY <1>5, <1>6, <1>7 DEF FilesInv

LEMMA SpaceKept ==
  ASSUME SpaceInv, \A x \in Arrays : SameShare(virt[x], virt'[x]), plan' = plan
  PROVE  SpaceInv'
<1>1. \A x \in Arrays : virt'[x].rows_in_mem = virt[x].rows_in_mem
                        /\ virt'[x].mem_buffer = virt[x].mem_buffer
  BY DEF SameShare
<1>2. HeightsFit(plan'.arrays, plan'.space, plan'.max_minheights)
  BY DEF SpaceInv
<1>3. /\ plan'.arrays \subseteq Arrays /\ IsFiniteSet(plan'.arrays) /\ plan'.space \in Int
      /\ \A a \in plan'.arrays : virt'[a].mem_buffer =>
           /\ virt'[a].rows_in_mem <= Shape[a].rows_in_array
           /\ virt'[a].rows_in_mem <= plan'.max_minheights*Shape[a].maxaccess
  BY <1>1 DEF SpaceInv
<1> QED
  BY <1>2, <1>3, Zenon DEF SpaceInv

LEMMA SharesKept ==
  ASSUME BooksInv, \A x \in Arrays : SameShare(virt[x], virt'[x]),
         MemoryInv', error = "" \/ error' # "", UNCHANGED <<system, mem, lists, files, plan>>
  PROVE  BooksInv'
<1>1. FilesInv'
  BY FilesKept DEF BooksInv
<1>2. SpaceInv'
  BY SpaceKept DEF BooksInv
<1> QED
  BY <1>1, <1>2 DEF BooksInv

LEMMA NoArrays == ASSUME lists = [s |-> <<>>, b |-> <<>>] PROVE Listed = {} /\ IsFiniteSet(Listed)
<1>1. Listed = {}
  BY DEF Listed, Range
<1> QED
  BY <1>1, FS_EmptySet

LEMMA InitBooks == Init => BooksInv
<1> SUFFICES ASSUME Init PROVE BooksInv
  OBVIOUS
<1>1. MemoryInv /\ system \in Systems
  BY InitInv DEF Init
<1>2. mem \in MemSet
  <2>1. <<>> \in Seq(PoolSet) /\ CONTROL \in Int
    BY SizeType
  <2>2. [p \in Pools |-> <<>>] \in PoolLists
    BY <2>1 DEF PoolLists
  <2> QED
    BY <2>1, <2>2 DEF Init, MemSet
<1>3. FilesInv
  <2>1. Listed = {} /\ IsFiniteSet(Listed) /\ files = {} /\ plan.todo = {}
    BY NoArrays DEF Init, NoPlan
  <2>2. \A a \in Arrays : virt[a].b_s_open = FALSE
    BY DEF Init, Unrealized
  <2>3. lists \in [s : Seq(Arrays), b : Seq(Arrays)]
    <3>1. <<>> \in Seq(Arrays)
      OBVIOUS
    <3> QED
      BY <3>1 DEF Init
  <2> QED
    BY <2>1, <2>2, <2>3 DEF FilesInv
<1>4. SpaceInv
  <2>1. plan.arrays = {} /\ plan.space = 0 /\ IsFiniteSet({})
    BY FS_EmptySet DEF Init, NoPlan
  <2> QED
    BY <2>1 DEF SpaceInv, HeightsFit
<1> QED
  BY <1>1, <1>2, <1>3, <1>4 DEF BooksInv

LEMMA GotBooks ==
  ASSUME NEW got \in ResultSet
  PROVE  got.m \in MemSet
<1>1. PICK m \in MemSet, e \in Errors : got = Result(m, e)
  BY DEF ResultSet
<1> QED
  BY <1>1 DEF Result

\* alloc_small and alloc_large for the library's objects.
LEMMA ObjectBooks ==
  ASSUME BooksInv, NEW got \in ResultSet, AllocObject(got), MemoryInv'
  PROVE  BooksInv'
<1>1. mem' = got.m /\ error = "" /\ UNCHANGED <<system, lists, virt, files, plan>>
  BY DEF AllocObject, Idle
<1>2. mem' \in MemSet
  BY <1>1, GotBooks
<1>3. \A x \in Arrays : SameShare(virt[x], virt'[x])
  BY <1>1 DEF SameShare
<1>4. FilesInv'
  BY <1>1, <1>3, FilesKept DEF BooksInv
<1>5. SpaceInv'
  BY <1>1, <1>3, SpaceKept DEF BooksInv
<1> QED
  BY <1>1, <1>2, <1>4, <1>5 DEF BooksInv

\* request_virt_sarray, request_virt_barray: one more array on its list.
LEMMA RequestBooks ==
  ASSUME BooksInv, NEW a \in Arrays, RequestVirtArray(a), MemoryInv'
  PROVE  BooksInv'
<1> DEFINE got == AllocSmall(mem, IMAGE, CONTROL)
           k == Shape[a].kind
<1>1. /\ mem' = got.m /\ error = "" /\ UNCHANGED <<system, virt, files, plan>> /\ a \notin Listed
      /\ lists' = IF got.err = "" THEN [lists EXCEPT ![k] = <<a>> \o @] ELSE lists
  BY DEF RequestVirtArray, Idle
<1>2. mem' \in MemSet
  <2>1. mem \in MemSet /\ IMAGE \in Pools /\ CONTROL \in Nat
    BY SizeType DEF BooksInv, Pools
  <2>2. got \in ResultSet
    BY <2>1, SmallBooks
  <2> HIDE DEF got
  <2> QED
    BY <1>1, <2>2, GotBooks
<1> HIDE DEF got
<1>3. \A x \in Arrays : SameShare(virt[x], virt'[x])
  BY <1>1 DEF SameShare
<1>4. SpaceInv'
  BY <1>1, <1>3, SpaceKept DEF BooksInv
<1>5. FilesInv'
  <2>1. CASE got.err # ""
    <3>1. lists' = lists
      BY <1>1, <2>1
    <3> QED
      BY <1>1, <1>3, <3>1, FilesKept DEF BooksInv
  <2>2. CASE got.err = ""
    <3>1. FilesInv /\ lists.s \in Seq(Arrays) /\ lists.b \in Seq(Arrays)
          /\ Listed \subseteq Arrays /\ lists \in [s : Seq(Arrays), b : Seq(Arrays)]
      BY ListedType DEF BooksInv, FilesInv
    <3>2. k \in {"s", "b"}
      BY ShapeAssumption
    <3>3. /\ lists' \in [s : Seq(Arrays), b : Seq(Arrays)]
          /\ lists'.s = IF k = "s" THEN <<a>> \o lists.s ELSE lists.s
          /\ lists'.b = IF k = "b" THEN <<a>> \o lists.b ELSE lists.b
      <4>1. lists' = [lists EXCEPT ![k] = <<a>> \o @]
        BY <1>1, <2>2
      <4>2. <<a>> \o lists.s \in Seq(Arrays) /\ <<a>> \o lists.b \in Seq(Arrays)
        BY <3>1
      <4> HIDE DEF k
      <4> QED
        BY <3>1, <3>2, <4>1, <4>2
    <3>4. ASSUME NEW q \in Seq(Arrays) PROVE Range(<<a>> \o q) = {a} \cup Range(q)
      <4> DEFINE aq == <<a>> \o q
      <4>1. \A i \in DOMAIN q : i + 1 \in DOMAIN aq /\ aq[i + 1] = q[i]
        OBVIOUS
      <4>2. 1 \in DOMAIN aq /\ aq[1] = a
        OBVIOUS
      <4>3. \A i \in DOMAIN aq : i # 1 => i - 1 \in DOMAIN q /\ aq[i] = q[i - 1]
        OBVIOUS
      <4> HIDE DEF aq
      <4>4. Range(q) \subseteq Range(aq)
        BY <4>1, Zenon DEF Range
      <4>5. a \in Range(aq)
        BY <4>2, Zenon DEF Range
      <4>6. \A x \in Range(aq) : x \in {a} \cup Range(q)
        BY <4>2, <4>3 DEF Range
      <4> QED
        BY <4>4, <4>5, <4>6 DEF aq
    <3>5. Listed' = Listed \cup {a}
      BY <3>1, <3>2, <3>3, <3>4 DEF Listed
    <3>6. IsFiniteSet(Listed')
      BY <3>1, <3>5, FS_AddElement DEF FilesInv
    <3>7. virt[a].b_s_open = FALSE
      <4>1. virt[a].b_s_open \in BOOLEAN
        BY DEF BooksInv, MemoryInv, BlockOK
      <4> QED
        BY <1>1, <3>1, <4>1 DEF FilesInv
    <3>8. files' = {x \in Listed' : virt'[x].b_s_open}
      BY <1>1, <3>1, <3>5, <3>7 DEF FilesInv
    <3> QED
      BY <1>1, <3>1, <3>3, <3>5, <3>6, <3>8 DEF FilesInv
  <2> QED
    BY <2>1, <2>2
<1> QED
  BY <1>1, <1>2, <1>4, <1>5 DEF BooksInv

\* realize_virt_arrays: the height is chosen so that what it gives out fits.
LEMMA PlanBooks ==
  ASSUME BooksInv, RealizeVirtArrays, MemoryInv'
  PROVE  BooksInv'
<1> DEFINE todo == {a \in Listed : ~virt[a].mem_buffer}
           avail == Available(MaxSpace(todo))
           heights == avail \div MinSpace(todo)
           most == IF avail >= MaxSpace(todo) THEN 1000000000
                   ELSE IF heights \in Nat \ {0} THEN heights ELSE 1
<1>a. plan' = [todo |-> todo, arrays |-> todo, space |-> avail, max_minheights |-> most]
  BY SMT DEF RealizeVirtArrays
<1>b. /\ avail >= MaxSpace(todo) \/ most = IF heights \in Nat \ {0} THEN heights ELSE 1
  BY SMT
<1> HIDE DEF most
<1>c. error = "" /\ UNCHANGED <<system, mem, lists, virt, files, grant, error, objects>>
  <2>1. Idle /\ UNCHANGED <<system, mem, lists, virt, files, grant, error, objects>>
    BY SMT DEF RealizeVirtArrays
  <2> QED
    BY <2>1 DEF Idle
<1>1. /\ error = "" /\ plan' = [todo |-> todo, arrays |-> todo, space |-> avail,
                                max_minheights |-> most]
      /\ UNCHANGED <<system, mem, lists, virt, files, error>>
  BY <1>a, <1>c
<1>2. plan'.todo = todo /\ plan'.arrays = todo /\ plan'.space = avail /\ plan'.max_minheights = most
  <2> HIDE DEF todo, avail, most
  <2> QED
    BY <1>1
<1>3. FilesInv /\ Listed \subseteq Arrays /\ Listed' = Listed
  BY <1>1, ListedType, SameListed DEF BooksInv
<1>4. todo \subseteq Listed /\ IsFiniteSet(todo) /\ todo \subseteq Arrays
  <2>1. todo \subseteq Listed
    OBVIOUS
  <2> QED
    BY <1>3, <2>1, FS_Subset DEF FilesInv
<1>5. \A a \in todo : virt[a].mem_buffer = FALSE
  BY <1>3 DEF BooksInv, MemoryInv, BlockOK
<1>6. FilesInv'
  <2>1. \A a \in Arrays : virt'[a].b_s_open =>
          a \in Listed' /\ a \notin todo /\ (error' = "" => virt'[a].mem_buffer)
    BY <1>1, <1>3, <1>5 DEF FilesInv
  <2> HIDE DEF todo
  <2>2. files' = {a \in Listed' : virt'[a].b_s_open}
    BY <1>1, <1>3 DEF FilesInv
  <2> QED
    BY <1>1, <1>2, <1>3, <1>4, <2>1, <2>2 DEF FilesInv
<1>7. SpaceInv'
  <2>1. MaxSpace(todo) \in Nat /\ MinSpace(todo) \in Nat /\ (todo # {} => MinSpace(todo) > 0)
    BY <1>4, SpaceType
  <2>2. avail \in Int
    <3>1. system.max_memory_to_use \in Int /\ mem.total_space_allocated \in Int
      BY SystemAssumption DEF BooksInv, MemSet
    <3> HIDE DEF todo
    <3> QED
      BY <2>1, <3>1 DEF Available
  <2>3. HeightsFit(todo, avail, most)
    <3> HIDE DEF todo, avail
    <3>1. CASE todo = {}
      BY <3>1, Zenon DEF HeightsFit
    <3>2. CASE avail >= MaxSpace(todo)
      <4>1. MaxSpace(todo) <= avail
        BY <2>1, <2>2, <3>2
      <4> QED
        BY <4>1, Zenon DEF HeightsFit
    <3>3. CASE todo # {} /\ ~(avail >= MaxSpace(todo)) /\ heights \in Nat \ {0}
      <4>1. \A d \in Nat : d > 0 => (avail \div d)*d <= avail
        BY <2>2
      <4>2. most = heights
        BY <1>b, <3>3
      <4>3. most*MinSpace(todo) <= avail
        BY <2>1, <3>3, <4>1, <4>2
      <4> QED
        BY <4>3, Zenon DEF HeightsFit
    <3>4. CASE ~(avail >= MaxSpace(todo)) /\ heights \notin Nat \ {0}
      <4>1. most = 1
        BY <1>b, <3>4
      <4> QED
        BY <4>1, Zenon DEF HeightsFit
    <3> QED
      BY <3>1, <3>2, <3>3, <3>4
  <2> HIDE DEF todo, avail, most
  <2>4. HeightsFit(plan'.arrays, plan'.space, plan'.max_minheights)
    BY <1>2, <2>3
  <2>5. /\ plan'.arrays \subseteq Arrays /\ IsFiniteSet(plan'.arrays) /\ plan'.space \in Int
        /\ \A a \in plan'.arrays : virt'[a].mem_buffer =>
             /\ virt'[a].rows_in_mem <= Shape[a].rows_in_array
             /\ virt'[a].rows_in_mem <= plan'.max_minheights*Shape[a].maxaccess
    BY <1>1, <1>2, <1>4, <1>5, <2>2
  <2> QED
    BY <2>4, <2>5, Zenon DEF SpaceInv
<1> QED
  BY <1>1, <1>6, <1>7 DEF BooksInv

\* The rows of an array are as many as it needs, and as max_minheights allows.
LEMMA RowsFit ==
  ASSUME BooksInv, NEW a \in Arrays, a \in plan.todo
  PROVE  /\ RowsInMem(a) \in Nat \ {0} /\ RowsInMem(a) <= Shape[a].rows_in_array
         /\ RowsInMem(a) <= plan.max_minheights*Shape[a].maxaccess
<1> DEFINE rows == Shape[a].rows_in_array
           x == Shape[a].maxaccess
           h == plan.max_minheights
           q == (rows - 1) \div x
<1>1. rows \in Nat \ {0} /\ x \in Nat \ {0} /\ h \in Nat \ {0}
  BY ShapeType DEF BooksInv, MemoryInv, PlanOK
<1>2. Fits(a) <=> q + 1 <= h
  BY DEF Fits, MinHeights
<1>3. RowsInMem(a) = IF Fits(a) THEN rows ELSE h*x
  BY DEF RowsInMem
<1> HIDE DEF rows, x, h
<1>4. q \in Nat /\ q*x <= rows - 1 /\ rows - 1 < (q + 1)*x
  BY <1>1
<1> HIDE DEF q
<1>5. h*x \in Nat \ {0} /\ q*x \in Nat /\ (q + 1)*x \in Nat
  BY <1>1, <1>4
<1>6. q + 1 <= h => (q + 1)*x <= h*x
  <2> DEFINE p == q + 1
  <2>1. p \in Nat
    BY <1>4
  <2> HIDE DEF p
  <2>2. p <= h => p*x <= h*x
    BY <1>1, <2>1
  <2> QED
    BY <2>2 DEF p
<1>7. h <= q => h*x <= q*x
  BY <1>1, <1>4
<1>8. RowsInMem(a) \in Nat \ {0} /\ RowsInMem(a) <= rows /\ RowsInMem(a) <= h*x
  <2>1. CASE Fits(a)
    BY <1>1, <1>2, <1>3, <1>4, <1>5, <1>6, <2>1
  <2>2. CASE ~Fits(a)
    BY <1>1, <1>2, <1>3, <1>4, <1>5, <1>7, <2>2
  <2> QED
    BY <2>1, <2>2
<1> QED
  BY <1>8 DEF rows, x, h

\* One turn of the loops of realize_virt_arrays, with or without backing store,
\* whether the buffer can be had or not.
LEMMA RealizeBooks ==
  ASSUME BooksInv, NEW a \in Arrays, RealizeArray(a), MemoryInv'
  PROVE  BooksInv'
<1> DEFINE got == AllocArray(mem, IMAGE, Shape[a].width, RowsInMem(a))
           v == [virt[a] EXCEPT !.b_s_open = Opened(a, got.err)]
           n == RowsInMem(a)
           w == [v EXCEPT !.mem_buffer = TRUE, !.rows_in_mem = n,
                          !.buffer = [i \in 0..(n - 1) |-> Junk],
                          !.cur_start_row = 0, !.first_undef_row = 0, !.dirty = FALSE]
           u == IF got.err # "" THEN v ELSE w
<1>1. CASE ~Fits(a) /\ ~system.backing_store
  <2>1. /\ UNCHANGED <<system, mem, lists, virt, files, plan>> /\ error' = "NO_BACKING_STORE"
    BY <1>1 DEF RealizeArray
  <2>2. \A x \in Arrays : SameShare(virt[x], virt'[x])
    BY <2>1 DEF SameShare
  <2> QED
    BY <2>1, <2>2, SharesKept
<1>2. CASE ~(~Fits(a) /\ ~system.backing_store)
  <2>1. /\ mem' = got.m /\ error' = got.err /\ virt' = [virt EXCEPT ![a] = u]
        /\ files' = IF Fits(a) THEN files ELSE files \cup {a}
        /\ plan' = [plan EXCEPT !.todo = @ \ {a}] /\ a \in plan.todo /\ error = ""
        /\ UNCHANGED <<system, lists>>
    BY <1>2 DEF RealizeArray
  <2>2. n \in Nat \ {0} /\ n <= Shape[a].rows_in_array
        /\ n <= plan.max_minheights*Shape[a].maxaccess
    BY <2>1, RowsFit
  <2>3. mem' \in MemSet
    <3>1. mem \in MemSet /\ IMAGE \in Pools /\ Shape[a].width \in Nat \ {0}
      BY ShapeType DEF BooksInv, Pools
    <3>2. got \in ResultSet
      BY <2>2, <3>1, ArrayBooks
    <3> HIDE DEF got
    <3> QED
      BY <2>1, <3>2, GotBooks
  <2>4. /\ virt[a] \in [mem_buffer : BOOLEAN, dirty : BOOLEAN, b_s_open : BOOLEAN,
             rows_in_mem : Nat, cur_start_row : Nat,
             first_undef_row : 0..Shape[a].rows_in_array,
             buffer : [0..(virt[a].rows_in_mem - 1) -> Values], file : [Rows(a) -> Values]]
        /\ virt[a].mem_buffer = FALSE
    BY <2>1 DEF BooksInv, MemoryInv, PlanOK, BlockOK
  <2>5. /\ u.b_s_open <=> ~Fits(a)
        /\ (got.err = "" => u.mem_buffer = TRUE) /\ (u.mem_buffer => u.rows_in_mem = n)
    <3> DEFINE err == got.err
    <3>1. (Opened(a, err) <=> ~Fits(a)) /\ Opened(a, err) \in BOOLEAN
      BY DEF Opened
    <3> HIDE DEF err, n
    <3>2. /\ v.b_s_open = Opened(a, got.err) /\ v.mem_buffer = FALSE
          /\ w.b_s_open = Opened(a, got.err) /\ w.mem_buffer = TRUE /\ w.rows_in_mem = n
      BY <2>4
    <3> HIDE DEF v, w
    <3> QED
      BY <3>1, <3>2 DEF err
  <2>6. /\ virt'[a] = u /\ \A b \in Arrays : b # a => virt'[b] = virt[b]
    <3> HIDE DEF u
    <3> QED
      BY <2>1 DEF BooksInv, MemoryInv
  <2>7. /\ plan'.todo = plan.todo \ {a} /\ plan'.arrays = plan.arrays
        /\ plan'.space = plan.space /\ plan'.max_minheights = plan.max_minheights
    BY <2>1 DEF BooksInv, MemoryInv, PlanOK
  <2>8. FilesInv /\ Listed \subseteq Arrays /\ Listed' = Listed
    BY <2>1, ListedType, SameListed DEF BooksInv
  <2> HIDE DEF got, n, u, v, w
  <2>9. FilesInv'
    <3>1. virt[a].b_s_open = FALSE /\ a \in Listed
      BY <2>1, <2>4, <2>8 DEF FilesInv
    <3>2. files' = {x \in Listed' : virt'[x].b_s_open}
      <4>1. \A x \in Listed : virt'[x].b_s_open <=> IF x = a THEN ~Fits(a) ELSE virt[x].b_s_open
        BY <2>5, <2>6, <2>8
      <4>2. a \notin files /\ files = {x \in Listed : virt[x].b_s_open}
        BY <2>8, <3>1 DEF FilesInv
      <4> QED
        BY <2>1, <2>8, <3>1, <4>1, <4>2
    <3>3. ASSUME NEW x \in Arrays, virt'[x].b_s_open
          PROVE  x \in Listed' /\ x \notin plan'.todo /\ (error' = "" => virt'[x].mem_buffer)
      <4>1. CASE x = a
        BY <2>1, <2>5, <2>6, <2>7, <2>8, <3>1, <4>1
      <4>2. CASE x # a
        BY <2>1, <2>6, <2>7, <2>8, <3>3, <4>2 DEF FilesInv
      <4> QED
        BY <4>1, <4>2
    <3> QED
      BY <2>1, <2>7, <2>8, <3>2, <3>3 DEF FilesInv
  <2>10. SpaceInv'
    <3>1. ASSUME NEW x \in plan'.arrays, virt'[x].mem_buffer
          PROVE  /\ virt'[x].rows_in_mem <= Shape[x].rows_in_array
                 /\ virt'[x].rows_in_mem <= plan'.max_minheights*Shape[x].maxaccess
      <4>1. CASE x = a
        BY <2>2, <2>5, <2>6, <2>7, <3>1, <4>1
      <4>2. CASE x # a
        BY <2>6, <2>7, <3>1, <4>2 DEF BooksInv, SpaceInv
      <4> QED
        BY <4>1, <4>2
    <3>2. HeightsFit(plan'.arrays, plan'.space, plan'.max_minheights)
      BY <2>7 DEF BooksInv, SpaceInv
    <3>3. plan'.arrays \subseteq Arrays /\ IsFiniteSet(plan'.arrays) /\ plan'.space \in Int
      BY <2>7 DEF BooksInv, SpaceInv
    <3> QED
      BY <3>1, <3>2, <3>3, Zenon DEF SpaceInv
  <2> QED
    BY <2>1, <2>3, <2>9, <2>10 DEF BooksInv
<1> QED
  BY <1>1, <1>2

\* access_virt_sarray, access_virt_barray, and what a caller does to a row.
LEMMA AccessBooks ==
  ASSUME BooksInv, NEW a \in Arrays, NEW start, NEW num, NEW writable,
         AccessVirtArray(a, start, num, writable), MemoryInv'
  PROVE  BooksInv'
<1> DEFINE w == Accessed(a, virt[a], start, num, writable)
<1>1. /\ virt' = [virt EXCEPT ![a] = w] /\ error = ""
      /\ UNCHANGED <<system, mem, lists, files, plan>>
  BY DEF AccessVirtArray, Idle
<1>2. SameShare(virt[a], w)
  <2>1. Good(a, virt[a])
    BY DEF BooksInv, MemoryInv, Good
  <2> QED
    BY <2>1, AccessShare
<1> HIDE DEF w
<1>3. \A x \in Arrays : SameShare(virt[x], virt'[x])
  BY <1>1, <1>2, OneShare DEF BooksInv
<1> QED
  BY <1>1, <1>3, SharesKept

LEMMA WriteBooks ==
  ASSUME BooksInv, NEW a \in Arrays, NEW r, NEW x, WriteRow(a, r, x), MemoryInv'
  PROVE  BooksInv'
<1> DEFINE at == r - virt[a].cur_start_row
           w == [virt[a] EXCEPT !.buffer[at] = x]
<1>1. /\ virt' = [virt EXCEPT ![a].buffer[at] = x] /\ error = ""
      /\ UNCHANGED <<system, mem, lists, files, plan>>
  BY DEF WriteRow, Idle
<1> HIDE DEF at
<1>2. virt' = [virt EXCEPT ![a] = w]
  BY <1>1
<1>3. SameShare(virt[a], w)
  BY DEF SameShare
<1> HIDE DEF w
<1>4. \A y \in Arrays : SameShare(virt[y], virt'[y])
  BY <1>2, <1>3, OneShare DEF BooksInv
<1> QED
  BY <1>1, <1>4, SharesKept

\* free_pool and self_destruct: every file is closed, every byte given back.
LEMMA CloseBooks ==
  ASSUME BooksInv, CloseArrays, NEW m \in MemSet, mem' = m, MemoryInv'
  PROVE  BooksInv'
<1>1. /\ files' = files \ {a \in Listed : virt[a].b_s_open} /\ lists' = [s |-> <<>>, b |-> <<>>]
      /\ virt' = [a \in Arrays |-> Unrealized(a)] /\ plan' = NoPlan /\ system' = system
  BY DEF CloseArrays
<1>2. files' = {}
  BY <1>1 DEF BooksInv, FilesInv
<1>3. FilesInv'
  <2>1. Listed' = {} /\ IsFiniteSet({})
    <3>1. Listed' = Range(<<>>) \cup Range(<<>>)
      BY <1>1 DEF Listed
    <3> QED
      BY <3>1, FS_EmptySet DEF Range
  <2>2. \A a \in Arrays : virt'[a].b_s_open = FALSE
    BY <1>1 DEF Unrealized
  <2>3. lists' \in [s : Seq(Arrays), b : Seq(Arrays)]
    <3>1. <<>> \in Seq(Arrays)
      OBVIOUS
    <3> QED
      BY <1>1, <3>1
  <2>4. plan'.todo = {}
    BY <1>1 DEF NoPlan
  <2> QED
    BY <1>2, <2>1, <2>2, <2>3, <2>4 DEF FilesInv
<1>4. SpaceInv'
  <2>1. plan'.arrays = {} /\ plan'.space = 0 /\ IsFiniteSet({})
    BY <1>1, FS_EmptySet DEF NoPlan
  <2>2. HeightsFit(plan'.arrays, plan'.space, plan'.max_minheights)
    BY <2>1, Zenon DEF HeightsFit
  <2>3. /\ plan'.arrays \subseteq Arrays /\ IsFiniteSet(plan'.arrays) /\ plan'.space \in Int
        /\ \A a \in plan'.arrays : virt'[a].mem_buffer =>
             /\ virt'[a].rows_in_mem <= Shape[a].rows_in_array
             /\ virt'[a].rows_in_mem <= plan'.max_minheights*Shape[a].maxaccess
    BY <2>1
  <2> QED
    BY <2>2, <2>3, Zenon DEF SpaceInv
<1> QED
  BY <1>1, <1>3, <1>4 DEF BooksInv

LEMMA StepBooks == BooksInv /\ [Next]_vars => BooksInv'
<1> SUFFICES ASSUME BooksInv, [Next]_vars PROVE BooksInv'
  OBVIOUS
<1>1. MemoryInv'
  BY StepInv DEF BooksInv
<1>2. mem \in MemSet
  BY DEF BooksInv
<1>3. ASSUME NEW pool \in Pools, NEW size \in Smalls, AllocObject(AllocSmall(mem, pool, size))
      PROVE  BooksInv'
  <2>1. AllocSmall(mem, pool, size) \in ResultSet
    BY <1>2, SizeAssumption, SmallBooks
  <2> QED
    BY <1>1, <1>3, <2>1, ObjectBooks
<1>4. ASSUME NEW pool \in Pools, NEW size \in Larges, AllocObject(AllocLarge(mem, pool, size))
      PROVE  BooksInv'
  <2>1. AllocLarge(mem, pool, size) \in ResultSet
    BY <1>2, SizeAssumption, LargeBooks
  <2> QED
    BY <1>1, <1>4, <2>1, ObjectBooks
<1>5. ASSUME NEW a \in Arrays, RequestVirtArray(a) PROVE BooksInv'
  BY <1>1, <1>5, RequestBooks
<1>6. ASSUME NEW a \in Arrays, NEW start, NEW num, NEW writable,
             AccessVirtArray(a, start, num, writable)
      PROVE  BooksInv'
  BY <1>1, <1>6, AccessBooks
<1>7. ASSUME NEW a \in Arrays, NEW r, NEW x, WriteRow(a, r, x) PROVE BooksInv'
  BY <1>1, <1>7, WriteBooks
<1>8. ASSUME NEW a \in Arrays, RealizeArray(a) PROVE BooksInv'
  BY <1>1, <1>8, RealizeBooks
<1>9. CASE RealizeVirtArrays
  BY <1>1, <1>9, PlanBooks
<1>10. IMAGE \in Pools /\ PERMANENT \in Pools
  BY DEF Pools
<1>11. CASE FreeImage
  <2>1. Freed(mem, IMAGE) \in MemSet
    BY <1>2, <1>10, FreedBooks
  <2> QED
    BY <1>1, <1>11, <2>1, CloseBooks DEF FreeImage
<1>12. CASE SelfDestruct
  <2>1. Freed(mem, IMAGE) \in MemSet
    BY <1>2, <1>10, FreedBooks
  <2>2. Freed(Freed(mem, IMAGE), PERMANENT) \in MemSet
    BY <1>10, <2>1, FreedBooks
  <2> QED
    BY <1>1, <1>12, <2>2, CloseBooks DEF SelfDestruct
<1>13. CASE UNCHANGED vars
  <2>1. /\ UNCHANGED <<system, mem, lists, virt, files, plan, error>>
    BY <1>13 DEF vars
  <2>2. \A x \in Arrays : SameShare(virt[x], virt'[x])
    BY <2>1 DEF SameShare
  <2> QED
    BY <1>1, <2>1, <2>2, SharesKept
<1> QED
  BY <1>3, <1>4, <1>5, <1>6, <1>7, <1>8, <1>9, <1>11, <1>12, <1>13 DEF Next

\* Whatever is allocated, realized, accessed and freed, in whatever order and
\* behind whichever failure, the books are as the code relies on (alloc_small,
\* alloc_large, realize_virt_arrays, free_pool).
THEOREM BooksHold == Spec => []BooksInv
<1>1. Init => BooksInv
  BY InitBooks
<1>2. BooksInv /\ [Next]_vars => BooksInv'
  BY StepBooks
<1> QED
  BY <1>1, <1>2, PTL DEF Spec

\* No byte is lost or counted twice, and no temporary file forgotten: what
\* free_pool gives back is what alloc_small, alloc_large and realize_virt_arrays took.
THEOREM AccountedHolds == Spec => []Accounted
<1>1. Spec => []BooksInv
  BY BooksHold
<1>2. BooksInv => Accounted
  BY BooksAccount
<1> QED
  BY <1>1, <1>2, PTL

\* For any number of arrays of any shapes, the buffers that realize_virt_arrays
\* gives out take no more than jpeg_mem_available has promised, or the least
\* that the arrays can do with.
THEOREM ParcelledHolds == Spec => []Parcelled
<1>1. Spec => []BooksInv
  BY BooksHold
<1>2. BooksInv => Parcelled
  BY BooksParcel
<1> QED
  BY <1>1, <1>2, PTL

-----------------------------------------------------------------------------
(* The virtual arrays implement the plain arrays of FlatArrays: every call *)
(* maps to a grant, a write, a revocation or a discard of one array, or to *)
(* no step at all, as realizing an array shows nothing of it.              *)

LEMMA UnrealizedCells ==
  ASSUME NEW a \in Arrays
  PROVE  /\ Unrealized(a).first_undef_row = 0
         /\ \A r \in Rows(a) : CellOf(a, Unrealized(a), r) = Blank(a)
<1>1. Unrealized(a).first_undef_row = 0
  BY DEF Unrealized
<1> QED
  BY <1>1, RowsType DEF CellOf

LEMMA FlatInit == Init => Flat!Init
<1> SUFFICES ASSUME Init PROVE Flat!Init
  OBVIOUS
<1>1. ASSUME NEW a \in Arrays
      PROVE  virt[a].first_undef_row = 0 /\ \A r \in Rows(a) : CellOf(a, virt[a], r) = Blank(a)
  <2>1. virt[a] = Unrealized(a)
    BY DEF Init
  <2> QED
    BY <2>1, UnrealizedCells
<1>2. Cells = [a \in Arrays |-> [r \in Flat!Rows(a) |-> Blank(a)]]
  BY <1>1 DEF Cells, Rows, Flat!Rows
<1>3. Defined = [a \in Arrays |-> 0]
  BY <1>1 DEF Defined
<1>4. grant = [a \in Arrays |-> Flat!NoGrant]
  BY DEF Init, NoGrant, Flat!NoGrant
<1> QED
  BY <1>2, <1>3, <1>4 DEF Flat!Init

\* Steps that leave the arrays alone.
LEMMA FlatStutter ==
  ASSUME virt' = virt, grant' = grant
  PROVE  UNCHANGED Flat!vars
  BY DEF Flat!vars, Cells, Defined, CellOf, InWindow

\* An array that is realized has no row defined, before or after.
LEMMA FlatRealize ==
  ASSUME MemoryInv, NEW a \in Arrays, RealizeArray(a)
  PROVE  UNCHANGED Flat!vars
<1>1. ~virt[a].mem_buffer /\ virt[a].first_undef_row = 0
  <2>1. a \in plan.todo
    BY DEF RealizeArray
  <2>2. ~virt[a].mem_buffer
    BY <2>1 DEF MemoryInv, PlanOK
  <2>3. WindowOK(a, virt[a])
    BY DEF MemoryInv
  <2> QED
    BY <2>2, <2>3 DEF WindowOK
<1>2. grant' = grant /\ \A b \in Arrays \ {a} : virt'[b] = virt[b]
  <2>1. virt = [b \in Arrays |-> virt[b]]
    BY DEF MemoryInv
  <2>2. grant' = grant /\ \E w : virt' = virt \/ virt' = [virt EXCEPT ![a] = w]
    BY DEF RealizeArray
  <2> QED
    BY <2>1, <2>2
<1>3. virt'[a].first_undef_row = 0
  <2> DEFINE got == AllocArray(mem, IMAGE, Shape[a].width, RowsInMem(a))
             v == [virt[a] EXCEPT !.b_s_open = Opened(a, got.err)]
             n == RowsInMem(a)
             w == [v EXCEPT !.mem_buffer = TRUE, !.rows_in_mem = n,
                            !.buffer = [i \in 0..(n - 1) |-> Junk],
                            !.cur_start_row = 0, !.first_undef_row = 0, !.dirty = FALSE]
  <2>1. virt' = virt \/ virt' = [virt EXCEPT ![a] = IF got.err # "" THEN v ELSE w]
    BY DEF RealizeArray
  <2>2. DOMAIN virt = Arrays
    BY DEF MemoryInv
  <2>3. DOMAIN virt[a] = DOMAIN Unrealized(a)
    BY DEF MemoryInv, BlockOK, Unrealized
  <2>4. v.first_undef_row = 0 /\ w.first_undef_row = 0
    BY <1>1, <2>3 DEF Unrealized
  <2> HIDE DEF v, w, got
  <2>5. virt'[a] = virt[a] \/ virt'[a] = v \/ virt'[a] = w
    BY <2>1, <2>2
  <2> QED
    BY <1>1, <2>4, <2>5
<1>4. \A r \in Rows(a) : CellOf(a, virt'[a], r) = CellOf(a, virt[a], r)
  BY <1>1, <1>3, RowsType DEF CellOf
<1>5. Cells' = Cells
  BY <1>2, <1>4 DEF Cells
<1>6. Defined' = Defined
  BY <1>1, <1>2, <1>3 DEF Defined
<1> QED
  BY <1>2, <1>5, <1>6 DEF Flat!vars

LEMMA FlatClose == ASSUME CloseArrays PROVE Flat!Discard
<1>1. ASSUME NEW a \in Arrays
      PROVE  /\ virt'[a].first_undef_row = 0
             /\ \A r \in Rows(a) : CellOf(a, virt'[a], r) = Blank(a)
  <2>1. virt'[a] = Unrealized(a)
    BY DEF CloseArrays
  <2> QED
    BY <2>1, UnrealizedCells
<1>2. Cells' = [a \in Arrays |-> [r \in Flat!Rows(a) |-> Blank(a)]]
  BY <1>1 DEF Cells, Rows, Flat!Rows
<1>3. Defined' = [a \in Arrays |-> 0]
  BY <1>1 DEF Defined
<1>4. grant' = [a \in Arrays |-> Flat!NoGrant]
  BY DEF CloseArrays, NoGrant, Flat!NoGrant
<1> QED
  BY <1>2, <1>3, <1>4 DEF Flat!Discard

LEMMA FlatWrite ==
  ASSUME MemoryInv, NEW a \in Arrays, NEW r \in Rows(a), NEW x \in Data, WriteRow(a, r, x)
  PROVE  Flat!Write(a, r, x)
<1> DEFINE w == virt'[a]
<1>1. /\ virt' = [virt EXCEPT ![a] = w] /\ w.first_undef_row = virt[a].first_undef_row
      /\ CellOf(a, w, r) = x
      /\ \A q \in Rows(a) \ {r} : CellOf(a, w, q) = CellOf(a, virt[a], q)
  BY WriteKeeps
<1>2. \A b \in Arrays \ {a} : virt'[b] = virt[b]
  BY <1>1 DEF MemoryInv
<1> HIDE DEF w
<1>3. Cells' = [Cells EXCEPT ![a][r] = x]
  <2>1. Cells'[a] = [Cells[a] EXCEPT ![r] = x]
    BY <1>1 DEF Cells, w
  <2>2. \A b \in Arrays \ {a} : Cells'[b] = Cells[b]
    BY <1>2 DEF Cells
  <2> QED
    BY <2>1, <2>2 DEF Cells
<1>4. Defined' = Defined
  BY <1>1, <1>2 DEF Defined, w
<1>5. grant' = grant /\ grant[a].writable /\ r \in grant[a].start..(grant[a].start + grant[a].num - 1)
  BY DEF WriteRow
<1> QED
  BY <1>3, <1>4, <1>5 DEF Flat!Write

\* An access that succeeds is a grant of these rows, one that fails takes the
\* array away from its caller.
LEMMA FlatAccess ==
  ASSUME MemoryInv, NEW a \in Arrays, NEW start \in Rows(a), NEW num \in Nat,
         NEW writable \in BOOLEAN, AccessVirtArray(a, start, num, writable)
  PROVE  \/ num \in 0..Shape[a].maxaccess /\ Flat!Grant(a, start, num, writable)
         \/ Flat!Revoke(a)
<1> DEFINE v == virt[a]
           w == Accessed(a, v, start, num, writable)
           e == AccessError(a, v, start, num, writable)
           g == IF e = "" THEN [start |-> start, num |-> num, writable |-> writable] ELSE NoGrant
<1>1. virt' = [virt EXCEPT ![a] = w] /\ grant' = [grant EXCEPT ![a] = g]
  BY DEF AccessVirtArray
<1>2. virt'[a] = w /\ \A b \in Arrays \ {a} : virt'[b] = virt[b]
  BY <1>1 DEF MemoryInv
<1>3. /\ SameCells(a, v, w) /\ Good(a, w)
      /\ e # "" => w.first_undef_row = v.first_undef_row
      /\ e = "" =>
           /\ ~Refused(a, v, start, num) /\ ~Undefined(a, v, start, num, writable)
           /\ w.first_undef_row = IF writable THEN Larger(v.first_undef_row, start + num)
                                  ELSE v.first_undef_row
           /\ Shape[a].pre_zero => \A r \in Rows(a) :
                r >= v.first_undef_row => CellOf(a, w, r) = Blank(a)
  BY AccessKeeps
<1>4. Good(a, v)
  BY DEF MemoryInv, Good
<1>5. /\ e # "" => g = NoGrant
      /\ e = "" => g = [start |-> start, num |-> num, writable |-> writable]
  OBVIOUS
<1> HIDE DEF v, w, e, g
<1>6. SameCells(a, v, w) /\ (e # "" => w.first_undef_row = v.first_undef_row)
  BY <1>3
<1>7. /\ v.first_undef_row \in Nat /\ v.first_undef_row <= Shape[a].rows_in_array
      /\ w.first_undef_row \in Nat /\ w.first_undef_row <= Shape[a].rows_in_array
  <2>1. Good(a, w)
    BY <1>3
  <2> QED
    BY <1>4, <2>1, ShapeType DEF Good, BlockOK
<1>8. \A b \in Arrays \ {a} : Cells'[b] = Cells[b]
  BY <1>2 DEF Cells
<1>9. \A r \in Rows(a) : /\ Cells[a][r] = CellOf(a, v, r)
                         /\ Cells'[a][r] = CellOf(a, w, r)
  BY <1>2 DEF Cells, v
<1>10. Defined' = [Defined EXCEPT ![a] = w.first_undef_row] /\ Defined[a] = v.first_undef_row
  BY <1>2 DEF Defined, v
<1>11. CASE e # ""
  <2>1. \A r \in Rows(a) : CellOf(a, w, r) = CellOf(a, v, r)
    <3>1. w.first_undef_row = v.first_undef_row
      BY <1>6, <1>11
    <3>2. ASSUME NEW r \in Rows(a), ~(r < v.first_undef_row)
          PROVE  CellOf(a, w, r) = CellOf(a, v, r)
      BY <1>7, <3>1, <3>2, RowsType DEF CellOf
    <3> QED
      BY <1>6, <3>2 DEF SameCells
  <2>2. Cells' = Cells
    BY <1>2, <1>8, <2>1 DEF Cells, v
  <2>3. Defined' = Defined
    BY <1>6, <1>10, <1>11 DEF Defined
  <2>4. g = Flat!NoGrant
    BY <1>5, <1>11 DEF NoGrant, Flat!NoGrant
  <2> QED
    BY <1>1, <2>2, <2>3, <2>4 DEF Flat!Revoke
<1>12. CASE e = ""
  <2>1. ~Refused(a, v, start, num)
    BY <1>3, <1>12
  <2>2. num <= Shape[a].maxaccess /\ start + num <= Shape[a].rows_in_array
    BY <2>1, ShapeType, RowsType DEF Refused
  <2>3. ~(/\ v.first_undef_row < start + num
          /\ IF writable THEN v.first_undef_row < start ELSE ~Shape[a].pre_zero)
    BY <1>3, <1>12 DEF Undefined
  <2>4. /\ writable => start <= Defined[a]
        /\ ~writable /\ ~Shape[a].pre_zero => start + num <= Defined[a]
    BY <1>7, <1>10, <2>3, ShapeType, RowsType
  <2>5. grant' = [grant EXCEPT ![a] = [start |-> start, num |-> num, writable |-> writable]]
    BY <1>1, <1>5, <1>12
  <2>6. w.first_undef_row = IF writable THEN Flat!Larger(v.first_undef_row, start + num)
                            ELSE v.first_undef_row
    BY <1>3, <1>12 DEF Larger, Flat!Larger
  <2>7. Defined' = [Defined EXCEPT ![a] = IF writable THEN Flat!Larger(@, start + num) ELSE @]
    BY <1>10, <2>6 DEF Defined
  <2>8. Shape[a].pre_zero => \A r \in Rows(a) :
          r >= v.first_undef_row => CellOf(a, w, r) = Blank(a)
    BY <1>3, <1>12
  <2>9. ASSUME NEW r \in Rows(a), CellOf(a, w, r) # CellOf(a, v, r)
        PROVE  ~Shape[a].pre_zero /\ writable /\ r >= Defined[a] /\ r < start + num
    <3>1. r \in Nat /\ start \in Nat
      BY RowsType
    <3>2. r >= v.first_undef_row
      <4>1. ~(r < v.first_undef_row)
        BY <1>6, <2>9, Zenon DEF SameCells
      <4> QED
        BY <1>7, <3>1, <4>1
    <3>3. CellOf(a, v, r) = Blank(a)
      BY <3>2 DEF CellOf
    <3>4. ~Shape[a].pre_zero
      BY <2>8, <2>9, <3>2, <3>3
    <3>5. ~(r >= w.first_undef_row)
      BY <2>9, <3>3 DEF CellOf
    <3>6. CASE writable = FALSE
      <4>1. w.first_undef_row = v.first_undef_row
        BY <2>6, <3>6
      <4> QED
        BY <1>7, <3>1, <3>2, <3>5, <4>1
    <3>7. CASE writable = TRUE
      <4>1. w.first_undef_row = Flat!Larger(v.first_undef_row, start + num)
        BY <2>6, <3>7
      <4>2. r < start + num
        BY <1>7, <3>1, <3>2, <3>5, <4>1 DEF Flat!Larger
      <4> QED
        BY <1>10, <3>2, <3>4, <3>7, <4>2
    <3> QED
      BY <3>6, <3>7
  <2>10. \A r \in Flat!Rows(a) : Cells'[a][r] # Cells[a][r] =>
           ~Shape[a].pre_zero /\ writable /\ r >= Defined[a] /\ r < start + num
    BY <1>9, <2>9 DEF Rows, Flat!Rows
  <2>11. Flat!Grant(a, start, num, writable)
    BY <1>8, <2>2, <2>4, <2>5, <2>7, <2>10 DEF Flat!Grant
  <2> QED
    BY <2>2, <2>11, ShapeType
<1> QED
  BY <1>11, <1>12

LEMMA FlatStep == MemoryInv /\ [Next]_vars => [Flat!Next]_(Flat!vars)
<1> SUFFICES ASSUME MemoryInv, [Next]_vars PROVE Flat!Next \/ UNCHANGED Flat!vars
  OBVIOUS
<1>1. ASSUME NEW got, AllocObject(got) PROVE UNCHANGED Flat!vars
  BY <1>1, FlatStutter DEF AllocObject
<1>2. ASSUME NEW a \in Arrays, RequestVirtArray(a) PROVE UNCHANGED Flat!vars
  BY <1>2, FlatStutter DEF RequestVirtArray
<1>3. CASE RealizeVirtArrays
  BY <1>3, FlatStutter DEF RealizeVirtArrays
<1>4. ASSUME NEW a \in Arrays, RealizeArray(a) PROVE UNCHANGED Flat!vars
  BY <1>4, FlatRealize
<1>5. ASSUME NEW a \in Arrays, NEW start \in Rows(a), NEW num \in 0..(Shape[a].maxaccess + 1),
             NEW writable \in BOOLEAN, AccessVirtArray(a, start, num, writable)
      PROVE  Flat!Next
  <2>1. num \in Nat
    BY ShapeType
  <2>2. \/ num \in 0..Shape[a].maxaccess /\ Flat!Grant(a, start, num, writable)
        \/ Flat!Revoke(a)
    BY <1>5, <2>1, FlatAccess
  <2>3. start \in Flat!Rows(a)
    BY DEF Rows, Flat!Rows
  <2> QED
    BY <2>2, <2>3 DEF Flat!Next
<1>6. ASSUME NEW a \in Arrays, NEW r \in Rows(a), NEW x \in Data, WriteRow(a, r, x)
      PROVE  Flat!Next
  <2>1. Flat!Write(a, r, x) /\ r \in Flat!Rows(a) /\ x \in Values
    BY <1>6, FlatWrite DEF Rows, Flat!Rows, Values
  <2> QED
    BY <2>1 DEF Flat!Next
<1>7. CASE FreeImage \/ SelfDestruct
  <2>1. Flat!Discard
    BY <1>7, FlatClose DEF FreeImage, SelfDestruct
  <2> QED
    BY <2>1 DEF Flat!Next
<1>8. CASE UNCHANGED vars
  BY <1>8, FlatStutter DEF vars
<1> QED
  BY <1>1, <1>2, <1>3, <1>4, <1>5, <1>6, <1>7, <1>8 DEF Next

\* Whatever part of an array is in memory, and however its window moves, its
\* callers see a plain array: what was written is read again, rows never written
\* are zero in a pre-zeroed array, and an access that fails gives nothing
\* (access_virt_sarray, access_virt_barray, do_sarray_io, do_barray_io).
THEOREM ImplementsFlatArrays == Spec => FlatSpec
<1>1. Init => Flat!Init
  BY FlatInit
<1>2. MemoryInv /\ [Next]_vars => [Flat!Next]_(Flat!vars)
  BY FlatStep
<1> QED
  BY <1>1, <1>2, WindowsHold, PTL DEF Spec, FlatSpec, Flat!Spec
=============================================================================
