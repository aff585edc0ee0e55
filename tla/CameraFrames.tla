---------------------------- MODULE CameraFrames ----------------------------
(***************************************************************************)
(* The turns of the camera's playback loop: readMjpegFrame of              *)
(* MjpegInputStream cuts a picture out of the HTTP stream, and the native  *)
(* pixeltobmp decodes it into the static buffer rgb and copies that into   *)
(* the bitmap.  One thread does all this (CameraPlayback), so a turn is    *)
(* one action; only freeCameraMemory comes in between.                     *)
(*                                                                         *)
(* A stream is a sequence of frames, each a header and a JPEG picture; the *)
(* reader sees only the bytes.  It looks for the start marker, takes the   *)
(* Content-Length of the header if there is one, and otherwise looks for   *)
(* the end marker: first where the length of the picture before makes it   *)
(* likely, then, if it is not there, from the mark on.  A picture has no   *)
(* other picture inside, and the camera keeps the resolution of the view.  *)
(***************************************************************************)
EXTENDS Integers, SequencesExt

CONSTANTS
  Streams,     \* what cameras may send: sequences of frames
  Limit,       \* FRAME_MAX_LENGTH
  MaxOpens     \* bound on how often a stream is opened

Bytes == {"FF", "D8", "D9", "x"}
SOI == <<"FF", "D8">>
EOI == <<"FF", "D9">>

Frame == [head  : Nat,          \* length of the header
          given : BOOLEAN,      \* the header has a Content-Length
          jpeg  : Seq(Bytes)]

(* A picture begins with one marker, ends with the other and has neither   *)
(* anywhere else.                                                          *)
IsPicture(j) ==
  /\ Len(j) >= 4
  /\ \A i \in 1..(Len(j) - 1) :
       /\ j[i] = SOI[1] /\ j[i + 1] = SOI[2] <=> i = 1
       /\ j[i] = EOI[1] /\ j[i + 1] = EOI[2] <=> i = Len(j) - 1

ASSUME FramesAssumption ==
  /\ Limit \in Nat \ {0} /\ MaxOpens \in Nat \ {0}
  /\ Streams \subseteq Seq(Frame)
  /\ \A s \in Streams : \A k \in DOMAIN s : IsPicture(s[k].jpeg)

VARIABLES
  stream,      \* the open stream, as the camera means it
  pos,         \* how many of its bytes are consumed
  last,        \* mContentLength, 0 for -1
  loop,        \* "runs", "ended" by -1, or what the exception is about
  handed,      \* the bytes the decoder was given in this stream, last
  rgb,         \* the native buffer is allocated
  sized,       \* IMG_WIDTH and IMG_HEIGHT are set
  decoded,     \* a picture has been decoded in this process
  opens

input  == <<stream, pos, last, handed>>
native == <<rgb, sized, decoded>>
vars   == <<input, loop, native, opens>>

Nothing == [from |-> 0, to |-> 0]

Size(f) == f.head + Len(f.jpeg)

(* No byte of a header belongs to a marker.                                *)
Part(f) == [i \in 1..f.head |-> "x"] \o f.jpeg

Joined(frames) == FoldLeft(LAMBDA d, f : d \o Part(f), <<>>, frames)

Data == Joined(stream)

(* The number of bytes before picture k.                                   *)
Start(k) == Len(Joined(SubSeq(stream, 1, k - 1))) + stream[k].head

Init ==
  /\ stream \in Streams /\ pos = 0 /\ last = 0 /\ handed = Nothing
  /\ loop = "runs"
  /\ rgb = FALSE /\ sized = FALSE /\ decoded = FALSE
  /\ opens = 1

-----------------------------------------------------------------------------
(* The search for a marker.                                                *)

(* The marker m is complete with byte i.  A byte that does not go on with  *)
(* it is not looked at again as its start, so of a run of its first byte   *)
(* every second one counts.                                                *)
Completes(d, from, m, i) ==
  /\ d[i] = m[2]
  /\ \E run \in 1..(i - from - 1) :
       /\ run % 2 = 1
       /\ \A j \in (i - run)..(i - 1) : d[j] = m[1]
       /\ i - run - 1 > from => d[i - run - 1] # m[1]

(* getEndOfSeqeunce reads at most max bytes until the marker is complete,  *)
(* or runs dry, where readUnsignedByte throws an IOException.              *)
Search(from, m, max) ==
  LET d    == Data
      size == Len(d)
      hits == {i \in from + 1 .. Min({from + max, size}) : Completes(d, from, m, i)}
  IN  [found |-> hits # {},
       at    |-> IF hits # {} THEN Min(hits) ELSE Min({from + max, size}),
       dry   |-> hits = {} /\ from + max > size]

Found(at)   == [is |-> "found", length |-> at]
Dropped(at) == [is |-> "dropped", at |-> at]
Late(at, length) == [is |-> "late", at |-> at, length |-> length]

(* Mutant: the search from the mark on is left out.                        *)
FromMarkGivesUp == [is |-> "missing"]

(* The end marker is searched from the mark on; the header counts too.     *)
FromMark ==
  LET end == Search(pos, EOI, Limit)
  IN  IF end.found THEN Found(end.at - pos)
      ELSE IF end.dry THEN Dropped(end.at)
      ELSE [is |-> "missing"]

(* Mutant: the length is counted from where the search began.              *)
SimplifiedFromMiddle(start) ==
  LET low  == last \div 2
      from == IF low = 0 THEN start ELSE start + low - 1
      end  == Search(from, EOI, (3 * last) \div 2 - low)
  IN  IF end.found /\ end.at - pos <= Limit THEN Found(end.at - from)
      ELSE IF end.found THEN Late(end.at, end.at - from)
      ELSE IF end.dry \/ end.at - pos > Limit THEN Dropped(end.at)
      ELSE FromMark

(* Mutant: the search begins where the picture before would end.           *)
SimplifiedStartsLate(start) ==
  LET from == IF last = 0 THEN start ELSE start + last - 1
      end  == Search(from, EOI, last)
  IN  IF end.found /\ end.at - pos <= Limit THEN Found(end.at - start)
      ELSE IF end.found THEN Late(end.at, end.at - start)
      ELSE IF end.dry \/ end.at - pos > Limit THEN Dropped(end.at)
      ELSE FromMark

(* getEndOfSeqeunceSimplified, and getEndOfSeqeunce if it fails.  The      *)
(* field headerLen is -1: the local of that name hides it.  The first time *)
(* there is nothing to go by, and no byte is skipped or read.  reset()     *)
(* throws when more than Limit bytes were read since the mark: before the  *)
(* second search, or behind a marker, when mContentLength has been set.    *)
Simplified(start) ==
  LET low  == last \div 2
      from == IF low = 0 THEN start ELSE start + low - 1
      end  == Search(from, EOI, (3 * last) \div 2 - low)
  IN  IF end.found /\ end.at - pos <= Limit THEN Found(end.at - start)
      ELSE IF end.found THEN Late(end.at, end.at - start)
      ELSE IF end.dry \/ end.at - pos > Limit THEN Dropped(end.at)
      ELSE FromMark

(* The length of the picture that starts there, from its header if that is *)
(* complete and has it.                                                    *)
Length(start) ==
  LET whole == {k \in DOMAIN stream : /\ Start(k) = start
                                      /\ stream[k].given
                                      /\ start - pos >= stream[k].head}
  IN  IF whole # {} THEN Found(Len(stream[Min(whole)].jpeg))
      ELSE Simplified(start)

-----------------------------------------------------------------------------
(* The decoder.                                                            *)

(* The bytes begin with picture k, and have all of it.                     *)
Holds(bytes, k) ==
  bytes.from = Start(k) /\ bytes.to >= Start(k) + Len(stream[k].jpeg)

Whole(bytes) == \E k \in DOMAIN stream : Holds(bytes, k)

(* processimage.  An error leaves it without a word: before anything is    *)
(* allocated, or in the middle of the picture.                             *)
ProcessImage ==
  \/ UNCHANGED native
  \/ rgb' = TRUE /\ decoded' = TRUE /\ sized' = TRUE

(* pixeltobmp.  A picture that stops before its end suspends the decoder   *)
(* for ever, since fill_input_buffer has nothing to add, while its rows    *)
(* run out of the buffer.  The copy needs sizes and a buffer.              *)
PixelToBmp(bytes) ==
  \/ /\ ProcessImage
     /\ loop' = IF ~sized' THEN "ended"
                ELSE IF ~rgb' THEN "no picture" ELSE "runs"
  \/ /\ ~Whole(bytes)
     /\ loop' = "cut off"
     /\ rgb' = TRUE /\ sized' = TRUE /\ UNCHANGED decoded

-----------------------------------------------------------------------------
(* readMjpegFrame, by where it gets to.                                    *)

NoMoreFrames ==                           \* answers -1 at the end
  LET soi == Search(pos, SOI, Limit)
  IN  /\ soi.dry
      /\ loop' = "ended"
      /\ UNCHANGED <<input, native, opens>>

NoHeader ==                               \* new byte[-1]
  LET soi == Search(pos, SOI, Limit)
  IN  /\ ~soi.found /\ ~soi.dry
      /\ loop' = "no header"
      /\ UNCHANGED <<input, native, opens>>

(* The picture is read and decoded.                                        *)
Cut ==
  LET soi == Search(pos, SOI, Limit)
      start == soi.at - 2
      cut == Length(start)
  IN  /\ soi.found
      /\ cut.is = "found"
      /\ start + cut.length <= Len(Data)
      /\ last' = cut.length /\ pos' = start + cut.length
      /\ handed' = [from |-> start, to |-> pos']
      /\ PixelToBmp(handed')
      /\ UNCHANGED <<stream, opens>>

(* The stream ends before the marker or within the picture, or reset()     *)
(* fails: an IOException, which the loop swallows.                         *)
Lost ==
  LET soi == Search(pos, SOI, Limit)
      start == soi.at - 2
      cut == Length(start)
  IN  /\ soi.found
      /\ \/ /\ cut.is = "dropped"
            /\ pos' = cut.at /\ UNCHANGED last
         \/ /\ cut.is = "late"
            /\ pos' = cut.at /\ last' = cut.length
         \/ /\ cut.is = "found" /\ start + cut.length > Len(Data)
            /\ pos' = Len(Data) /\ last' = cut.length
      /\ UNCHANGED <<stream, handed, loop, native, opens>>

NoLength ==                               \* readFully of -1 bytes
  LET soi == Search(pos, SOI, Limit)
  IN  /\ soi.found
      /\ Length(soi.at - 2).is = "missing"
      /\ loop' = "no length"
      /\ UNCHANGED <<input, native, opens>>

ReadMjpegFrame ==
  loop = "runs" /\ (NoMoreFrames \/ NoHeader \/ Cut \/ Lost \/ NoLength)

(* freeCameraMemory keeps the sizes.                                       *)
FreeCameraMemory ==
  /\ loop = "runs" /\ rgb
  /\ rgb' = FALSE
  /\ UNCHANGED <<input, loop, sized, decoded, opens>>

(* The stream is opened anew, by the same process.                         *)
Open ==
  /\ loop \in {"runs", "ended"} /\ opens < MaxOpens
  /\ pos' = 0 /\ last' = 0 /\ handed' = Nothing
  /\ loop' = "runs" /\ opens' = opens + 1
  /\ UNCHANGED <<stream, native>>

Next == ReadMjpegFrame \/ FreeCameraMemory \/ Open

Spec == Init /\ [][Next]_vars

-----------------------------------------------------------------------------
(* Properties.                                                             *)

(* The reader can find its way: every picture has its length, or all       *)
(* headers are equally long and no fill byte precedes an end marker.       *)
Regular ==
  \/ \A k \in DOMAIN stream : stream[k].given
  \/ \A k \in DOMAIN stream :
       /\ stream[k].head = stream[1].head
       /\ stream[k].jpeg[Len(stream[k].jpeg) - 2] # "FF"

(* What the decoder is given begins with a picture and has all of it, how- *)
(* ever its end was found and wherever the search before has stopped.      *)
WholeFrames == Regular /\ handed # Nothing => Whole(handed)

(* Every frame is shorter than what the reader looks ahead.                *)
Fits == \A k \in DOMAIN stream : Size(stream[k]) < Limit

(* No picture is only half as long as the frame before.                    *)
Steady ==
  \A k \in 2..Len(stream) : 2 * Len(stream[k].jpeg) > Size(stream[k - 1])

(* No picture is skipped or shown twice.  A frame that does not fit may    *)
(* be, since reset() fails, and so may one that follows a picture less     *)
(* than half as long: the search begins behind the end of that.            *)
NoneSkipped ==
  [][Regular /\ Fits /\ Steady /\ handed' \notin {handed, Nothing} =>
       \E k \in DOMAIN stream :
         /\ Holds(handed', k)
         /\ IF handed = Nothing THEN k = 1 ELSE k > 1 /\ Holds(handed, k - 1)]_vars

(* Playback ends before the last frame only if no picture has ever been    *)
(* decoded; and it ends the process only in a stream with a frame as long  *)
(* as the reader looks ahead or longer, in one it cannot find its way in,  *)
(* or on a buffer freed before a picture that cannot be decoded.  A frame  *)
(* of just that length is too long where the search behind a short picture *)
(* has stopped at its first byte: the next start marker is out of sight.   *)
EndsExplained ==
  /\ loop = "ended" =>
       ~decoded \/ \A k \in DOMAIN stream : Start(k) < pos
  /\ loop \in {"no header", "no length", "cut off"} =>
       ~(Regular /\ Fits)
  /\ loop = "no picture" => decoded /\ ~rgb
=============================================================================
