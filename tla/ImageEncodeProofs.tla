-------------------------- MODULE ImageEncodeProofs --------------------------
(***************************************************************************)
(* Proofs about ImageEncode, for images of any size, row length and amount *)
(* of data, and any amount of memory.                                      *)
(***************************************************************************)
EXTENDS ImageEncode, TLAPS

(* The types of a message's fields. *)
LEMMA MessageFields ==
  ASSUME NEW m \in Messages
  PROVE  /\ m.encoding \in {"mono8", "rgb8", "bgr8", "other"}
         /\ m.width \in Nat /\ m.height \in Nat /\ m.step \in Nat /\ m.len \in Nat
  BY ImageEncodeAssumption DEF Messages

(* Products of naturals, which the arithmetic of the provers leaves out. *)
LEMMA ProductNat == \A i, j \in Nat : i * j \in Nat
  OBVIOUS

(* The reference definition and the code agree on where a row begins. *)
LEMMA RowsAgree ==
  ASSUME NEW m \in Messages
  PROVE  /\ RowLength(m) \in Nat
         /\ IsColour(m) => Stride(m) = RowLength(m)
         /\ ~IsColour(m) /\ m.step \in {0, m.width} => Stride(m) = m.width
<1>1. m.width \in Nat /\ m.step \in Nat
  BY MessageFields
<1> QED
  BY <1>1 DEF RowLength, Stride, Channels

(* A pixel of a colour image: all of its three bytes, or black. *)
LEMMA ColourPixel ==
  ASSUME NEW m \in Messages, IsColour(m), NEW x \in Nat, NEW y \in Nat
  PROVE  LET e == Expected(m, x, y) IN
         ColourAt(m, x, y) = IF Blank \in {e.r, e.g, e.b} THEN Black ELSE e
<1> DEFINE i == y * RowLength(m) + 3 * x
           e == Expected(m, x, y)
<1>1. i \in Nat /\ m.len \in Nat
  <2>1. y * RowLength(m) \in Nat
    BY RowsAgree, ProductNat
  <2> QED
    BY <2>1, MessageFields
<1>2. /\ ByteAt(m, 0, x, y) = IF i < m.len THEN i ELSE -1
      /\ ByteAt(m, 1, x, y) = IF i + 1 < m.len THEN i + 1 ELSE -1
      /\ ByteAt(m, 2, x, y) = IF i + 2 < m.len THEN i + 2 ELSE -1
  <2>1. /\ Stride(m) = RowLength(m) /\ Channels(m) = 3
        /\ y * RowLength(m) \in Nat
    BY RowsAgree, ProductNat DEF Channels
  <2> QED
    BY <2>1 DEF ByteAt, Blank
<1> HIDE DEF i
<1>3. CASE m.encoding = "rgb8"
  <2>1. e = [r |-> ByteAt(m, 0, x, y), g |-> ByteAt(m, 1, x, y), b |-> ByteAt(m, 2, x, y)]
    BY <1>3 DEF Expected
  <2>2. ColourAt(m, x, y) =
          IF i + 2 >= m.len THEN Black ELSE [r |-> i, g |-> i + 1, b |-> i + 2]
    BY <1>3 DEF ColourAt, i
  <2> QED
    BY <1>1, <1>2, <2>1, <2>2 DEF Blank
<1>4. CASE m.encoding = "bgr8"
  <2>1. e = [b |-> ByteAt(m, 0, x, y), g |-> ByteAt(m, 1, x, y), r |-> ByteAt(m, 2, x, y)]
    BY <1>4 DEF Expected
  <2>2. ColourAt(m, x, y) =
          IF i + 2 >= m.len THEN Black ELSE [b |-> i, g |-> i + 1, r |-> i + 2]
    BY <1>4 DEF ColourAt, i
  <2> QED
    BY <1>1, <1>2, <2>1, <2>2 DEF Blank
<1> QED
  BY <1>3, <1>4 DEF IsColour

(* A pixel of a grey image whose rows are packed. *)
LEMMA GreyPixel ==
  ASSUME NEW m \in Messages, m.encoding = "mono8", m.step \in {0, m.width},
         NEW x \in Nat, NEW y \in Nat
  PROVE  LET e == Expected(m, x, y) IN
         GreyAt(m, x, y) = IF Blank \in {e.r, e.g, e.b} THEN Black ELSE e
<1> DEFINE i == y * m.width + x
<1>1. i \in Nat /\ m.len \in Nat /\ y * m.width \in Nat
  BY MessageFields, ProductNat
<1>2. ByteAt(m, 0, x, y) = IF i < m.len THEN i ELSE -1
  <2>1. ~IsColour(m)
    BY DEF IsColour
  <2>2. Stride(m) = m.width /\ Channels(m) = 1
    BY <2>1, RowsAgree DEF Channels
  <2> QED
    BY <1>1, <2>2 DEF ByteAt, Blank
<1>3. Expected(m, x, y) =
        [r |-> ByteAt(m, 0, x, y), g |-> ByteAt(m, 0, x, y), b |-> ByteAt(m, 0, x, y)]
  BY DEF Expected
<1>4. GreyAt(m, x, y) = IF i >= m.len THEN Black ELSE [r |-> i, g |-> i, b |-> i]
  BY DEF GreyAt
<1> HIDE DEF i
<1> QED
  BY <1>1, <1>2, <1>3, <1>4 DEF Blank, Black

(* The message in hand stays the one that was taken, the room what it is. *)
LEMMA MessageStays == Spec => [](img \in Messages /\ memory \in Nat)
<1>1. Init => img \in Messages /\ memory \in Nat
  BY ImageEncodeAssumption DEF Init
<1>2. img \in Messages /\ memory \in Nat /\ [Next]_vars
        => (img \in Messages /\ memory \in Nat)'
  BY DEF Next, Refuse, Convert, vars
<1> QED
  BY <1>1, <1>2, PTL DEF Spec

(* Whatever its size, padding and completeness, a colour image is          *)
(* converted pixel by pixel as sensor_msgs/Image lays it out, and so is a  *)
(* grey one with packed rows.                                              *)
THEOREM FaithfulAlways == Spec => []Faithful
<1>1. Init => Faithful
  BY DEF Init, Faithful
<1>2. img \in Messages /\ Faithful /\ [Next]_vars => Faithful'
  <2> SUFFICES ASSUME img \in Messages, Faithful, [Next]_vars PROVE Faithful'
    OBVIOUS
  <2>1. CASE Refuse
    BY <2>1 DEF Refuse, Faithful
  <2>2. CASE Convert
    <3> SUFFICES ASSUME result' = "jpeg", IsColour(img) \/ img.step \in {0, img.width},
                        NEW p \in Pixels(img)
                 PROVE  LET e == Expected(img, p[1], p[2]) IN
                        picture'[p] = IF Blank \in {e.r, e.g, e.b} THEN Black ELSE e
      BY <2>2 DEF Convert, Faithful
    <3>1. p[1] \in Nat /\ p[2] \in Nat
      BY MessageFields DEF Pixels
    <3>2. picture'[p] = IF IsColour(img) THEN ColourAt(img, p[1], p[2])
                                         ELSE GreyAt(img, p[1], p[2])
      BY <2>2 DEF Convert
    <3>3. CASE IsColour(img)
      BY <3>1, <3>2, <3>3, ColourPixel
    <3>4. CASE ~IsColour(img)
      <4>1. img.encoding = "mono8"
        BY <2>2, <3>4, MessageFields DEF Convert, IsColour
      <4> QED
        BY <3>1, <3>2, <3>4, <4>1, GreyPixel
    <3> QED
      BY <3>3, <3>4
  <2>3. CASE UNCHANGED vars
    BY <2>3 DEF vars, Faithful
  <2> QED
    BY <2>1, <2>2, <2>3 DEF Next
<1> QED
  BY <1>1, <1>2, MessageStays, PTL DEF Spec

(* The picture of a complete message of whole rows: three of its bytes are *)
(* four bytes of the picture, or fewer when it is grey or padded.          *)
LEMMA PictureFits ==
  ASSUME NEW m \in Messages, Complete(m), WholeRows(m)
  PROVE  PictureBytes(m) \in Nat /\ 3 * PictureBytes(m) <= 4 * m.len
<1>1. m.width \in Nat /\ m.height \in Nat /\ m.step \in Nat /\ m.len \in Nat
  BY MessageFields
<1>2. Stride(m) \in Nat
  BY <1>1 DEF Stride, Channels
<1>3. \A a, b, n \in Nat : a <= b => a * n <= b * n
  <2>1. \A a, b, n \in Nat : b * n - a * n = (b - a) * n
    OBVIOUS
  <2>2. ASSUME NEW a \in Nat, NEW b \in Nat, NEW n \in Nat, a <= b
        PROVE  a * n <= b * n
    <3>1. (b - a) * n \in Nat /\ a * n \in Nat /\ b * n \in Nat
      BY <2>2, ProductNat
    <3> QED
      BY <2>1, <3>1
  <2> QED
    BY <2>2
<1> DEFINE area == m.width * m.height
<1>4. area \in Nat
  BY <1>1, ProductNat
<1>5. CASE IsColour(m)
  <2>1. (3 * m.width) * m.height <= m.len
    BY <1>1, <1>2, <1>3, <1>5 DEF Complete, WholeRows, Channels
  <2>2. \A w, h \in Nat : (3 * w) * h = 3 * (w * h) /\ 4 * w * h = 4 * (w * h)
    OBVIOUS
  <2>3. 3 * area <= m.len /\ PictureBytes(m) = 4 * area
    BY <1>1, <1>5, <2>1, <2>2 DEF PictureBytes
  <2> HIDE DEF area
  <2> QED
    BY <1>1, <1>4, <2>3
<1>6. CASE ~IsColour(m)
  <2>1. m.width <= Stride(m)
    BY <1>1, <1>6 DEF WholeRows, Channels
  <2>2. area <= m.len /\ PictureBytes(m) = area
    BY <1>1, <1>2, <1>3, <1>6, <2>1 DEF Complete, PictureBytes
  <2> HIDE DEF area
  <2> QED
    BY <1>1, <1>4, <2>2
<1> QED
  BY <1>5, <1>6

(* The slices of a complete image are all within its data. *)
LEMMA CompleteSlices ==
  ASSUME NEW m \in Messages, Complete(m), IsColour(m)
  PROVE  ~SliceFails(m)
<1>1. /\ RowLength(m) \in Nat /\ m.height \in Nat
      /\ m.len = RowLength(m) * m.height
  BY RowsAgree, MessageFields DEF Complete
<1>2. \A n, h \in Nat : (h - 1) * n <= n * h
  <2>1. \A n, h \in Nat : (h - 1) * n = n * h - n /\ n * h \in Nat
    OBVIOUS
  <2> QED
    BY <2>1
<1>3. (m.height - 1) * RowLength(m) <= m.len
  BY <1>1, <1>2
<1> QED
  BY <1>1, <1>3, ProductNat DEF SliceFails

(* A complete image ends the process for want of memory only, and never    *)
(* when there is room for four thirds of the message and its rows are      *)
(* whole.                                                                  *)
THEOREM CompleteNeverCrashesAlways == Spec => []CompleteNeverCrashes
<1>1. Init => CompleteNeverCrashes
  BY DEF Init, CompleteNeverCrashes
<1>2. img \in Messages /\ memory \in Nat /\ CompleteNeverCrashes /\ [Next]_vars
        => CompleteNeverCrashes'
  <2> SUFFICES ASSUME img \in Messages, memory \in Nat, CompleteNeverCrashes, [Next]_vars
               PROVE  CompleteNeverCrashes'
    OBVIOUS
  <2>1. CASE Refuse \/ UNCHANGED vars
    BY <2>1 DEF Refuse, vars, CompleteNeverCrashes
  <2>2. CASE Convert
    <3> SUFFICES ASSUME Complete(img),
                        \/ PictureBytes(img) <= memory
                        \/ WholeRows(img) /\ 4 * img.len <= 3 * memory
                 PROVE  result' # "panic"
      BY <2>2 DEF Convert, CompleteNeverCrashes
    <3>1. ~AllocationFails(img)
      <4>1. PictureBytes(img) \in Nat
        BY MessageFields, ProductNat DEF PictureBytes
      <4>2. CASE WholeRows(img) /\ 4 * img.len <= 3 * memory
        BY <4>1, <4>2, PictureFits, MessageFields DEF AllocationFails
      <4>3. CASE PictureBytes(img) <= memory
        BY <4>1, <4>3 DEF AllocationFails
      <4> QED
        BY <4>2, <4>3
    <3>2. ~(IsColour(img) /\ SliceFails(img))
      BY CompleteSlices
    <3> QED
      BY <2>2, <3>1, <3>2 DEF Convert
  <2> QED
    BY <2>1, <2>2 DEF Next
<1> QED
  BY <1>1, <1>2, MessageStays, PTL DEF Spec
=============================================================================
