---------------------------- MODULE MemoryManager ----------------------------
(***************************************************************************)
(* The memory manager of jpeg8d (jmemmgr.c): pools of small objects, large   *)
(* objects, and virtual arrays of which a window is in memory and the rest    *)
(* in backing store.  It is one object of one thread: interleaved are the      *)
(* calls of the library's modules and what they do to the rows they get.      *)
(*                                                                          *)
(* jpeg_mem_available and the backing store are the system's (jmemnobs.c in    *)
(* the Android build, jmemansi.c beside it): a member of Systems says how      *)
(* they answer, and sets two bounds, which arrays the callers touch and how    *)
(* many objects they ask for.  Sample arrays and block arrays have the same    *)
(* code twice in jmemmgr.c and are told apart by their lists only.             *)
(***************************************************************************)
EXTENDS Integers, SequencesExt

CONSTANTS
  Arrays, Shape,    \* the virtual arrays, see FlatArrays
  Data, Zero, Junk, \* the contents of rows: written, zeroed, as malloc left it
  Systems,          \* [heap, backing_store, max_memory_to_use, touched, objects]
  Smalls, Larges,   \* sizes of the objects the library asks for
  ALIGN, HEADER, POINTER, CONTROL,  \* sizes of the types
  MAX_ALLOC_CHUNK, MIN_SLOP, first_pool_slop, extra_pool_slop

PERMANENT == 0
IMAGE == 1
Pools == {PERMANENT, IMAGE}
Values == Data \cup {Zero, Junk}

ASSUME ShapeAssumption ==
  Shape \in [Arrays -> [rows_in_array : Nat \ {0}, width : Nat \ {0}, maxaccess : Nat \ {0},
                        pre_zero : BOOLEAN, kind : {"s", "b"}]]
ASSUME SizeAssumption ==
  /\ ALIGN \in Nat \ {0} /\ HEADER \in Nat /\ HEADER % ALIGN = 0 /\ POINTER \in Nat \ {0}
  /\ MAX_ALLOC_CHUNK \in Nat /\ MAX_ALLOC_CHUNK % ALIGN = 0 /\ MAX_ALLOC_CHUNK > HEADER
  /\ CONTROL \in Nat /\ MIN_SLOP \in Nat \ {0} /\ Smalls \subseteq Nat /\ Larges \subseteq Nat
  /\ first_pool_slop \in [Pools -> Nat] /\ extra_pool_slop \in [Pools -> Nat]
ASSUME SystemAssumption ==
  \A s \in Systems : s.heap \in Nat /\ s.max_memory_to_use \in Int /\ s.backing_store \in BOOLEAN

VARIABLES
  system,   \* the system at work
  mem,      \* the pools, total_space_allocated, and what malloc has given out
  lists,    \* virt_sarray_list and virt_barray_list
  virt,     \* the control blocks, with the buffer and the file of each
  files,    \* the arrays with a temporary file
  plan,     \* realize_virt_arrays in progress: the arrays to do, their height
  grant,    \* the rows the last access of each array has returned
  error,    \* what ERREXIT has reported, or ""
  objects   \* how many objects have been asked for

vars == <<system, mem, lists, virt, files, plan, grant, error, objects>>

Rows(a) == 0..(Shape[a].rows_in_array - 1)
Blank(a) == IF Shape[a].pre_zero THEN Zero ELSE Junk
NoGrant == [start |-> 0, num |-> 0, writable |-> FALSE]
Listed == Range(lists.s) \cup Range(lists.b)
SumOver(S, Of(_)) == FoldFunction(+, 0, [x \in S |-> Of(x)])

-----------------------------------------------------------------------------
(* Pools.  Operators map mem to what an allocation leaves; err is "" unless  *)
(* it failed.                                                               *)

Rounded(size) == ((size + ALIGN - 1) \div ALIGN)*ALIGN
Got(m, size) == m.held + size <= system.heap
Result(m, err) == [m |-> m, err |-> err]

\* The slops alloc_small tries, each half of the last, down to MIN_SLOP.
Slops(first) ==
  {s \in 0..first : s = first \/ (s >= MIN_SLOP /\ \E k \in 1..16 : s = first \div 2^k)}
FirstSlop(m, pool, size) ==
  LET slop == IF m.small[pool] = <<>> THEN first_pool_slop[pool] ELSE extra_pool_slop[pool]
      most == MAX_ALLOC_CHUNK - (size + HEADER)
  IN IF slop > most THEN most ELSE slop

\* A pool of min_request + slop bytes.
NewPool(m, pool, size, slop) ==
  LET bytes == size + HEADER + slop
  IN [m EXCEPT !.total_space_allocated = @ + bytes, !.held = @ + bytes,
               !.small[pool] = Append(@, [size |-> bytes, used |-> size, left |-> slop])]

\* alloc_small: the first pool with room, or a new one.
AllocSmall(m, pool, sizeofobject) ==
  LET size == Rounded(sizeofobject)
      room == {i \in DOMAIN m.small[pool] : m.small[pool][i].left >= size}
      slops == {s \in Slops(FirstSlop(m, pool, size)) : Got(m, size + HEADER + s)}
  IN IF sizeofobject > MAX_ALLOC_CHUNK - HEADER THEN Result(m, "OUT_OF_MEMORY")
     ELSE IF room # {}
     THEN Result([m EXCEPT !.small[pool][Min(room)].used = @ + size,
                           !.small[pool][Min(room)].left = @ - size], "")
     ELSE IF slops = {} THEN Result(m, "OUT_OF_MEMORY")
     ELSE Result(NewPool(m, pool, size, Max(slops)), "")

\* alloc_large: always a pool of its own.
AllocLarge(m, pool, sizeofobject) ==
  LET bytes == Rounded(sizeofobject) + HEADER
  IN IF sizeofobject > MAX_ALLOC_CHUNK - HEADER \/ ~Got(m, bytes) THEN Result(m, "OUT_OF_MEMORY")
     ELSE Result([m EXCEPT !.total_space_allocated = @ + bytes, !.held = @ + bytes,
                           !.large[pool] =
                             <<[size |-> bytes, used |-> bytes - HEADER, left |-> 0]>> \o @], "")

\* alloc_sarray, alloc_barray: the row pointers, then the rows in chunks.
AllocArray(m, pool, width, numrows) ==
  LET ltemp == (MAX_ALLOC_CHUNK - HEADER) \div width
      chunk == IF ltemp < numrows THEN ltemp ELSE numrows
      chunks == [i \in 1..((numrows + chunk - 1) \div chunk) |->
                   IF i*chunk <= numrows THEN chunk ELSE numrows - (i - 1)*chunk]
      Next1(res, rows) == IF res.err # "" THEN res ELSE AllocLarge(res.m, pool, rows*width)
      all == FoldLeft(Next1, AllocSmall(m, pool, numrows*POINTER), chunks)
  IN IF ltemp <= 0 THEN Result(m, "WIDTH_OVERFLOW")
     ELSE Result(all.m, IF all.err = "" THEN "" ELSE "OUT_OF_MEMORY")

\* free_pool, its objects.
Freed(m, pool) ==
  LET all == m.small[pool] \o m.large[pool]
  IN [m EXCEPT !.small[pool] = <<>>, !.large[pool] = <<>>,
               !.total_space_allocated =
                 FoldLeft(LAMBDA t, p : t - (p.used + p.left + HEADER), @, all),
               !.held = FoldLeft(LAMBDA t, p : t - p.size, @, all)]

-----------------------------------------------------------------------------
(* Virtual arrays.                                                         *)

Unrealized(a) ==
  [mem_buffer |-> FALSE, rows_in_mem |-> 0, cur_start_row |-> 0, first_undef_row |-> 0,
   dirty |-> FALSE, b_s_open |-> FALSE, buffer |-> [i \in 0..(0 - 1) |-> Junk],
   file |-> [r \in Rows(a) |-> Junk]]

InWindow(v, r) == r >= v.cur_start_row /\ r < v.cur_start_row + v.rows_in_mem

\* do_sarray_io, do_barray_io: the defined rows of the window, no further than
\* the array goes; chunk by chunk in the code.
Written(a, v) ==
  [v EXCEPT !.file = [r \in Rows(a) |->
     IF InWindow(v, r) /\ r < v.first_undef_row THEN v.buffer[r - v.cur_start_row] ELSE @[r]]]
Read(a, v) ==
  [v EXCEPT !.buffer = [i \in 0..(v.rows_in_mem - 1) |->
     IF v.cur_start_row + i < v.first_undef_row /\ v.cur_start_row + i \in Rows(a)
     THEN v.file[v.cur_start_row + i] ELSE @[i]]]

\* Mutant of Flushed: the buffer is dropped.
FlushedNot(a, v) == [v EXCEPT !.dirty = FALSE]

Flushed(a, v) == IF v.dirty THEN [Written(a, v) EXCEPT !.dirty = FALSE] ELSE v

\* Mutant of NewStart: it falls off the front end of the file.
NewStartAnywhere(v, start, end) ==
  IF start > v.cur_start_row THEN start ELSE end - v.rows_in_mem

\* Where the window goes: with the target at its start when it moves forward,
\* at its end when it moves back.
NewStart(v, start, end) ==
  IF start > v.cur_start_row THEN start
  ELSE IF end < v.rows_in_mem THEN 0 ELSE end - v.rows_in_mem

Outside(v, start, end) ==
  start < v.cur_start_row \/ end > v.cur_start_row + v.rows_in_mem
Moved(a, v, start, end) ==
  IF ~Outside(v, start, end) THEN v
  ELSE Read(a, [Flushed(a, v) EXCEPT !.cur_start_row = NewStart(v, start, end)])

\* Pre-zeroing of the part that is about to be accessed.
Zeroed(v, from, end) ==
  [v EXCEPT !.buffer = [i \in 0..(v.rows_in_mem - 1) |->
     IF v.cur_start_row + i >= from /\ v.cur_start_row + i < end THEN Zero ELSE @[i]]]

\* access_virt_sarray, access_virt_barray.  An access is refused at once, or
\* when the window has moved and rows turn out to be undefined.
Refused(a, v, start, num) ==
  start + num > Shape[a].rows_in_array \/ num > Shape[a].maxaccess \/ ~v.mem_buffer
Stuck(v, start, num) == Outside(v, start, start + num) /\ ~v.b_s_open
Undefined(a, v, start, num, writable) ==
  /\ v.first_undef_row < start + num
  /\ IF writable THEN v.first_undef_row < start ELSE ~Shape[a].pre_zero

AccessError(a, v, start, num, writable) ==
  IF Refused(a, v, start, num) THEN "BAD_VIRTUAL_ACCESS"
  ELSE IF Stuck(v, start, num) THEN "VIRTUAL_BUG"
  ELSE IF Undefined(a, v, start, num, writable) THEN "BAD_VIRTUAL_ACCESS" ELSE ""

\* What an access that is not refused leaves of a control block v that has been
\* moved already.
Opening(a, v, start, end, writable) ==
  LET from == IF v.first_undef_row < start THEN start ELSE v.first_undef_row
      fresh == v.first_undef_row < end
      zeroed == IF fresh /\ Shape[a].pre_zero THEN Zeroed(v, from, end) ELSE v
  IN IF writable
     THEN [zeroed EXCEPT !.dirty = TRUE, !.first_undef_row = IF fresh THEN end ELSE @]
     ELSE zeroed

Accessed(a, v, start, num, writable) ==
  IF Refused(a, v, start, num) \/ Stuck(v, start, num) THEN v
  ELSE IF Undefined(a, v, start, num, writable) THEN Moved(a, v, start, start + num)
  ELSE Opening(a, Moved(a, v, start, start + num), start, start + num, writable)

-----------------------------------------------------------------------------
(* The methods.                                                            *)

Idle == error = "" /\ plan.todo = {}
NoPlan == [todo |-> {}, max_minheights |-> 0, space |-> 0, arrays |-> {}]

\* alloc_small, alloc_large for the library's own objects.
AllocObject(got) ==
  /\ Idle /\ objects < system.objects /\ objects' = objects + 1
  /\ mem' = got.m /\ error' = got.err
  /\ UNCHANGED <<system, lists, virt, files, plan, grant>>

\* request_virt_sarray, request_virt_barray.
RequestVirtArray(a) ==
  /\ Idle /\ a \notin Listed
  /\ LET got == AllocSmall(mem, IMAGE, CONTROL)
         k == Shape[a].kind
     IN /\ mem' = got.m /\ error' = got.err
        /\ lists' = IF got.err = "" THEN [lists EXCEPT ![k] = <<a>> \o @] ELSE lists
  /\ UNCHANGED <<system, virt, files, plan, grant, objects>>

MinSpace(S) == SumOver(S, LAMBDA a : Shape[a].maxaccess*Shape[a].width)
MaxSpace(S) == SumOver(S, LAMBDA a : Shape[a].rows_in_array*Shape[a].width)

\* jpeg_mem_available.
Available(max_bytes_needed) ==
  IF system.backing_store THEN system.max_memory_to_use - mem.total_space_allocated
  ELSE max_bytes_needed

\* realize_virt_arrays: the space there is, parcelled out.
RealizeVirtArrays ==
  /\ Idle
  /\ LET todo == {a \in Listed : ~virt[a].mem_buffer}
         avail == Available(MaxSpace(todo))
         heights == avail \div MinSpace(todo)
     IN /\ todo # {}
        /\ plan' = [todo |-> todo, arrays |-> todo, space |-> avail,
                    max_minheights |-> IF avail >= MaxSpace(todo) THEN 1000000000
                                       ELSE IF heights \in Nat \ {0} THEN heights ELSE 1]
  /\ UNCHANGED <<system, mem, lists, virt, files, grant, error, objects>>

MinHeights(a) == (Shape[a].rows_in_array - 1) \div Shape[a].maxaccess + 1
Fits(a) == MinHeights(a) <= plan.max_minheights

\* Mutant of RowsInMem: as many rows for each array as for any other.
RowsInMemSame(a) == IF Fits(a) THEN Shape[a].rows_in_array ELSE Shape[a].maxaccess + 1

RowsInMem(a) ==
  IF Fits(a) THEN Shape[a].rows_in_array ELSE plan.max_minheights*Shape[a].maxaccess

\* Mutant of Opened: the backing store is noted when the array is complete.
OpenedLate(a, err) == err = "" /\ ~Fits(a)

Opened(a, err) == ~Fits(a)

\* The loops go through the list of sample arrays, then that of block arrays.
ComesFirst(a) ==
  LET order == lists.s \o lists.b
  IN \E i \in DOMAIN order : order[i] = a /\ \A j \in 1..(i - 1) : order[j] \notin plan.todo

\* One turn of the loops: the first array that is left.
RealizeArray(a) ==
  /\ error = "" /\ a \in plan.todo /\ ComesFirst(a)
  /\ LET got == AllocArray(mem, IMAGE, Shape[a].width, RowsInMem(a))
         v == [virt[a] EXCEPT !.b_s_open = Opened(a, got.err)]
     IN IF ~Fits(a) /\ ~system.backing_store
        THEN /\ error' = "NO_BACKING_STORE"
             /\ UNCHANGED <<mem, virt, files, plan>>
        ELSE /\ mem' = got.m /\ error' = got.err
             /\ files' = IF Fits(a) THEN files ELSE files \cup {a}
             /\ virt' = [virt EXCEPT ![a] =
                  IF got.err # "" THEN v
                  ELSE [v EXCEPT !.mem_buffer = TRUE, !.rows_in_mem = RowsInMem(a),
                                 !.buffer = [i \in 0..(RowsInMem(a) - 1) |-> Junk],
                                 !.cur_start_row = 0, !.first_undef_row = 0, !.dirty = FALSE]]
             /\ plan' = [plan EXCEPT !.todo = @ \ {a}]
  /\ UNCHANGED <<system, lists, grant, objects>>

\* access_virt_sarray, access_virt_barray.
AccessVirtArray(a, start, num, writable) ==
  /\ Idle /\ a \in Listed \cap system.touched
  /\ error' = AccessError(a, virt[a], start, num, writable)
  /\ virt' = [virt EXCEPT ![a] = Accessed(a, @, start, num, writable)]
  /\ grant' = [grant EXCEPT ![a] =
       IF error' = "" THEN [start |-> start, num |-> num, writable |-> writable] ELSE NoGrant]
  /\ UNCHANGED <<system, mem, lists, files, plan, objects>>

\* A caller that is granted a row for writing changes it in the buffer.
WriteRow(a, r, x) ==
  /\ Idle
  /\ grant[a].writable /\ r \in grant[a].start..(grant[a].start + grant[a].num - 1)
  /\ virt' = [virt EXCEPT ![a].buffer[r - virt[a].cur_start_row] = x]
  /\ UNCHANGED <<system, mem, lists, files, plan, grant, error, objects>>

\* The virtual arrays are closed and forgotten, which free_pool does first for
\* the image pool.  Behind an error nothing else is done with the object.
CloseArrays ==
  /\ plan.todo = {} \/ error # ""
  /\ files' = files \ {a \in Listed : virt[a].b_s_open}
  /\ lists' = [s |-> <<>>, b |-> <<>>]
  /\ virt' = [a \in Arrays |-> Unrealized(a)]
  /\ grant' = [a \in Arrays |-> NoGrant]
  /\ plan' = NoPlan /\ error' = ""
  /\ UNCHANGED <<system, objects>>

\* free_pool(JPOOL_IMAGE), by jpeg_abort; self_destruct, and another object.
FreeImage == CloseArrays /\ mem' = Freed(mem, IMAGE)
SelfDestruct == CloseArrays /\ mem' = Freed(Freed(mem, IMAGE), PERMANENT)

-----------------------------------------------------------------------------
\* jinit_memory_mgr.
Init ==
  /\ system \in Systems
  /\ mem = [small |-> [p \in Pools |-> <<>>], large |-> [p \in Pools |-> <<>>],
            total_space_allocated |-> CONTROL, held |-> CONTROL]
  /\ lists = [s |-> <<>>, b |-> <<>>]
  /\ virt = [a \in Arrays |-> Unrealized(a)] /\ files = {}
  /\ plan = NoPlan /\ grant = [a \in Arrays |-> NoGrant] /\ error = "" /\ objects = 0

Next ==
  \/ \E pool \in Pools :
       \/ \E size \in Smalls : AllocObject(AllocSmall(mem, pool, size))
       \/ \E size \in Larges : AllocObject(AllocLarge(mem, pool, size))
  \/ \E a \in Arrays :
       \/ RequestVirtArray(a)
       \/ \E start \in Rows(a), num \in 0..(Shape[a].maxaccess + 1), writable \in BOOLEAN :
            AccessVirtArray(a, start, num, writable)
       \/ \E r \in Rows(a), x \in Data : WriteRow(a, r, x)
       \/ RealizeArray(a)
  \/ RealizeVirtArrays \/ FreeImage \/ SelfDestruct

Spec == Init /\ [][Next]_vars

-----------------------------------------------------------------------------
(* Properties.                                                             *)

\* What row r of array a holds, wherever it is.
CellOf(a, v, r) ==
  IF r >= v.first_undef_row THEN Blank(a)
  ELSE IF InWindow(v, r) THEN v.buffer[r - v.cur_start_row] ELSE v.file[r]
Cells == [a \in Arrays |-> [r \in Rows(a) |-> CellOf(a, virt[a], r)]]
Defined == [a \in Arrays |-> virt[a].first_undef_row]

\* Windows that move, dirty buffers that are written out and parts that are
\* zeroed when they are first seen add up to plain arrays (access_virt_sarray,
\* access_virt_barray, do_sarray_io, do_barray_io).
Flat == INSTANCE FlatArrays WITH cells <- Cells, defined <- Defined
FlatSpec == Flat!Spec

BlockOK(a, v) ==
  v \in [mem_buffer : BOOLEAN, dirty : BOOLEAN, b_s_open : BOOLEAN,
         rows_in_mem : Nat, cur_start_row : Nat,
         first_undef_row : 0..Shape[a].rows_in_array,
         buffer : [0..(v.rows_in_mem - 1) -> Values], file : [Rows(a) -> Values]]

\* The window holds what may be asked for: the whole array, or maxaccess rows
\* with a file behind them; and a clean window and its file are the same.
WindowOK(a, v) ==
  /\ v.mem_buffer =>
       \/ v.rows_in_mem = Shape[a].rows_in_array /\ v.cur_start_row = 0
       \/ v.b_s_open /\ v.rows_in_mem >= Shape[a].maxaccess
  /\ ~v.mem_buffer => v.first_undef_row = 0
  /\ ~v.dirty => \A r \in Rows(a) :
       InWindow(v, r) /\ r < v.first_undef_row => v.buffer[r - v.cur_start_row] = v.file[r]

\* What a caller may use is in the window until its next access, with zeroes
\* where nobody has written; and what it may change will be saved.
GrantOK(a, v, g) ==
  /\ \A r \in g.start..(g.start + g.num - 1) :
       /\ InWindow(v, r) /\ r \in Rows(a)
       /\ r >= v.first_undef_row => Shape[a].pre_zero /\ v.buffer[r - v.cur_start_row] = Zero
  /\ g.writable => v.dirty /\ g.start + g.num <= v.first_undef_row

\* The arrays that realize_virt_arrays still has to do.
PlanOK ==
  /\ plan = [todo |-> plan.todo, max_minheights |-> plan.max_minheights, space |-> plan.space,
              arrays |-> plan.arrays]
  /\ plan.max_minheights \in Nat /\ (plan.todo # {} => plan.max_minheights > 0)
  /\ \A a \in Arrays : a \in plan.todo => ~virt[a].mem_buffer

\* The inductive invariant of the virtual arrays; with it the library's check
\* for a window it cannot move never fails (access_virt_sarray,
\* access_virt_barray, realize_virt_arrays).
MemoryInv ==
  /\ virt = [a \in Arrays |-> virt[a]]
  /\ grant \in [Arrays -> [start : Nat, num : Nat, writable : BOOLEAN]]
  /\ PlanOK
  /\ \A a \in Arrays :
       /\ BlockOK(a, virt[a]) /\ WindowOK(a, virt[a]) /\ GrantOK(a, virt[a], grant[a])
       /\ ~virt[a].mem_buffer => grant[a] = NoGrant
  /\ error # "VIRTUAL_BUG"

\* The books are right, also behind an allocation that failed half-way: every
\* byte that is held is accounted for, and every temporary file is known to
\* free_pool (alloc_small, alloc_large, realize_virt_arrays, free_pool).
Accounted ==
  /\ mem.total_space_allocated = mem.held
  /\ files = {a \in Listed : virt[a].b_s_open}

\* The buffers of the arrays realized together take no more than there was, or
\* the least they can do with (realize_virt_arrays).
Parcelled ==
  LET bytes == SumOver({a \in plan.arrays : virt[a].mem_buffer},
                       LAMBDA a : virt[a].rows_in_mem*Shape[a].width)
  IN bytes <= plan.space \/ bytes <= MinSpace(plan.arrays)
=============================================================================
