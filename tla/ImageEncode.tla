----------------------------- MODULE ImageEncode -----------------------------
(***************************************************************************)
(* One call of encodeSensorImageToJPEG (internal/robot/controller.go), the *)
(* conversion the raw image callback runs in the spin goroutine.  A byte   *)
(* of the message is named by its index in Data, so that a picture says    *)
(* which byte it shows at which pixel; the compression itself is left out. *)
(* The picture is allocated in the size the header says, before anything   *)
(* compares that with the data or with what the encoder takes.  Nothing    *)
(* recovers in that goroutine: "panic", of an allocation of an impossible  *)
(* size, for want of memory, or of a slice out of range, is the end of the *)
(* process.                                                                *)
(***************************************************************************)
EXTENDS Integers

CONSTANTS Widths, Heights,   \* what a message may say of its size
          Steps,             \* and of its row length in bytes, 0 included
          Lengths,           \* how many bytes it carries
          Memories,          \* the room there may be for a picture, in bytes
          SideLimit          \* the JPEG encoder refuses sides from here on

ASSUME ImageEncodeAssumption ==
  /\ Widths \subseteq Nat /\ Heights \subseteq Nat
  /\ Steps \subseteq Nat /\ Lengths \subseteq Nat
  /\ Memories \subseteq Nat /\ SideLimit \in Nat

Messages == [encoding : {"mono8", "rgb8", "bgr8", "other"},
             width : Widths, height : Heights, step : Steps, len : Lengths]

VARIABLES img,      \* the message taken by the callback
          memory,   \* the largest picture the process has room for
          result,   \* "none" while encoding, then what the call returned
          picture   \* pixel -> the byte of each channel

vars == <<img, memory, result, picture>>

Blank == -1          \* a channel no byte was written to
Black == [r |-> Blank, g |-> Blank, b |-> Blank]

IsColour(m) == m.encoding \in {"rgb8", "bgr8"}
Pixels(m)   == (0 .. m.width - 1) \X (0 .. m.height - 1)

Init == /\ img \in Messages /\ memory \in Memories
        /\ result = "none" /\ picture = <<>>

-----------------------------------------------------------------------------
\* image.NewGray and image.NewRGBA: one byte a pixel, or four.
PictureBytes(m) == IF IsColour(m) THEN 4 * m.width * m.height ELSE m.width * m.height

AllocationFails(m) == PictureBytes(m) > memory

\* Fault: rows are taken to be packed.
RowLengthPacked(m) == 3 * m.width

\* The row length, 3 * width when the message leaves it at 0.
RowLength(m) == IF m.step = 0 THEN 3 * m.width ELSE m.step

\* Fault: the loop runs one row too far.
SliceFailsBeyond(m) == m.height * RowLength(m) >= m.len

\* src[y*step:] for some row y: the last row decides.  The loop is at the end
\* of the data long before y * step leaves 64 bits.
SliceFails(m) == (m.height - 1) * RowLength(m) > m.len

\* One colour pixel, as long as the row still has three bytes for it.
ColourAt(m, x, y) ==
  LET i == y * RowLength(m) + 3 * x IN
  IF i + 2 >= m.len THEN Black
  ELSE IF m.encoding = "rgb8" THEN [r |-> i, g |-> i + 1, b |-> i + 2]
                              ELSE [b |-> i, g |-> i + 1, r |-> i + 2]

\* copy(gray.Pix, img.Data): the message's row length is not looked at.
GreyAt(m, x, y) ==
  LET i == y * m.width + x IN
  IF i >= m.len THEN Black ELSE [r |-> i, g |-> i, b |-> i]

Refuse ==
  /\ result = "none"
  /\ \/ img.width = 0 \/ img.height = 0
     \/ img.encoding = "other"
  /\ result' = "error"
  /\ UNCHANGED <<img, memory, picture>>

Convert ==
  /\ result = "none"
  /\ img.width # 0 /\ img.height # 0
  /\ img.encoding # "other"
  /\ IF AllocationFails(img) \/ (IsColour(img) /\ SliceFails(img))
       THEN result' = "panic" /\ UNCHANGED picture
       ELSE IF img.width >= SideLimit \/ img.height >= SideLimit
              THEN result' = "error" /\ UNCHANGED picture
              ELSE /\ result' = "jpeg"
                   /\ picture' = [p \in Pixels(img) |->
                        IF IsColour(img) THEN ColourAt(img, p[1], p[2])
                                         ELSE GreyAt(img, p[1], p[2])]
  /\ UNCHANGED <<img, memory>>

Next == Refuse \/ Convert

Spec == Init /\ [][Next]_vars

-----------------------------------------------------------------------------
(* What sensor_msgs/Image says: the byte of channel c of pixel (x, y) is   *)
(* the c-th of the x-th group of the row that begins at y * step; a byte   *)
(* the message does not carry is Blank.                                    *)
Channels(m) == IF IsColour(m) THEN 3 ELSE 1
Stride(m)   == IF m.step = 0 THEN Channels(m) * m.width ELSE m.step

ByteAt(m, c, x, y) ==
  LET i == y * Stride(m) + Channels(m) * x + c IN IF i < m.len THEN i ELSE Blank

Expected(m, x, y) ==
  LET colour(c) == ByteAt(m, c, x, y)
      grey      == ByteAt(m, 0, x, y)
  IN CASE m.encoding = "rgb8" -> [r |-> colour(0), g |-> colour(1), b |-> colour(2)]
       [] m.encoding = "bgr8" -> [b |-> colour(0), g |-> colour(1), r |-> colour(2)]
       [] OTHER -> [r |-> grey, g |-> grey, b |-> grey]

(* Padded or not, complete or cut short, a colour image comes out with     *)
(* every pixel it has all bytes of at its place and the others black; a    *)
(* grey one does when its rows are packed.                                 *)
Faithful ==
  result = "jpeg" /\ (IsColour(img) \/ img.step \in {0, img.width}) =>
    \A p \in Pixels(img) :
      LET e == Expected(img, p[1], p[2]) IN
      picture[p] = IF Blank \in {e.r, e.g, e.b} THEN Black ELSE e

\* The message has the bytes that its header says, and each row its pixels.
Complete(m)  == m.len = Stride(m) * m.height
WholeRows(m) == Channels(m) * m.width <= Stride(m)

(* Whatever its encoding, size and padding, a complete image ends the      *)
(* process only when there is no room for its picture; and there is room   *)
(* for the picture of whole rows in four thirds of what the message takes. *)
(* Rows shorter than their pixels may ask for any amount of memory.        *)
CompleteNeverCrashes ==
  /\ Complete(img)
  /\ \/ PictureBytes(img) <= memory
     \/ WholeRows(img) /\ 4 * img.len <= 3 * memory
  => result # "panic"

(* Image.gen.go:36: step is the full row length in bytes, so a grey pixel  *)
(* is found at y * step + x.  The code does not keep this (see the         *)
(* findings in README.md).                                                 *)
GreyRowsFaithful ==
  /\ result = "jpeg" /\ img.encoding = "mono8"
  /\ img.step >= img.width /\ img.len = img.step * img.height
  => \A p \in Pixels(img) : picture[p] = Expected(img, p[1], p[2])
=============================================================================
