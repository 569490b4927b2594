--------------------------- MODULE Bl1Fwu_proofs ---------------------------
(***************************************************************************)
(* The four properties of the firmware update state machine of BL1, for    *)
(* any images, addresses and sizes.                                        *)
(***************************************************************************)
EXTENDS Bl1Fwu, TLAPS

Types == /\ state \in [Image -> States]
         /\ image_size \in [Image -> Nat] /\ copied_size \in [Image -> Nat]
         /\ loaded \subseteq Image
         /\ sec_exec_image_id \in Secure \cup {None}
         /\ mem \in [Address -> Image \cup {Bad, Zero}]
         /\ world \in {"NS", "S"} /\ halted \in BOOLEAN
         /\ ENABLE_ASSERTIONS \in BOOLEAN /\ stale \subseteq Image

\* SecureWorldIsExecuting, image by image.
ExecInv == /\ \A i \in Secure : state[i] = "EXECUTED" <=> (world = "S" /\ i = sec_exec_image_id)
           /\ world = "S" => sec_exec_image_id \in Secure

\* Image i is in memory as it was authenticated.
Verified(i) == \/ state[i] = "AUTHENTICATED"
               \/ state[i] \in {"EXECUTED", "INTERRUPTED"} /\ i \notin stale

\* Only the images of Copied are copied; they fit, and are complete once they
\* are COPIED.  One that a refused copy left in the list has no bytes yet.
SizeInv == /\ \A i \in Image \ Copied : copied_size[i] = 0 /\ state[i] \notin {"COPYING", "COPIED"}
           /\ \A i \in Copied :
                /\ image_size[i] <= MaxSize[i]
                /\ i \in loaded => copied_size[i] <= image_size[i]
                /\ i \in loaded /\ state[i] = "RESET" => copied_size[i] = 0
                /\ state[i] = "COPIED" \/ Verified(i) => copied_size[i] = image_size[i]

\* No two of them in the list overlap.
DisjointInv == \A i, j \in Copied \cap loaded :
                 i # j => Bytes(i, image_size[i]) \cap Bytes(j, image_size[j]) = {}

FwuInv == /\ Types /\ LoadedIsTracked /\ ExecInv /\ SizeInv
          /\ DisjointInv /\ AuthenticIntact /\ NoUnverifiedResidue

-----------------------------------------------------------------------------
\* The bytes of an image: fewer bytes are a part of more, and an image that
\* fits is in memory.
LEMMA Ranges ==
  ASSUME NEW i \in Image, NEW m \in Nat, NEW n \in Nat, m <= n
  PROVE  /\ Bytes(i, m) \subseteq Bytes(i, n)
         /\ n <= MaxSize[i] => Bytes(i, n) \subseteq Address
         /\ Bytes(i, 0) = {}
<1>1. Base[i] \in Nat /\ MaxSize[i] \in Nat
  BY FwuAssumption
<1>2. Bytes(i, m) \subseteq Bytes(i, n) /\ Bytes(i, 0) = {}
  BY <1>1 DEF Bytes
<1>3. n <= MaxSize[i] => Bytes(i, n) \subseteq Base[i]..(Base[i] + MaxSize[i] - 1)
  BY <1>1 DEF Bytes
<1> QED BY <1>2, <1>3 DEF Address

\* An image whose bytes matter is in the list, and what is copied of it is
\* within its announced size and in memory.
LEMMA Listed ==
  ASSUME FwuInv, NEW k \in Copied, state[k] \in {"COPYING", "COPIED"} \/ Verified(k)
  PROVE  /\ k \in loaded
         /\ Bytes(k, copied_size[k]) \subseteq Bytes(k, image_size[k])
         /\ Bytes(k, image_size[k]) \subseteq Address
<1> USE FwuAssumption DEF FwuInv
<1>1. k \in loaded /\ k \in Image
  BY DEF LoadedIsTracked, Verified
<1>2. /\ copied_size[k] \in Nat /\ image_size[k] \in Nat
      /\ copied_size[k] <= image_size[k] /\ image_size[k] <= MaxSize[k]
  BY <1>1 DEF Types, SizeInv
<1> QED BY <1>1, <1>2, Ranges

\* At the cold boot of BL1 nothing is loaded.
LEMMA InvInit == Init => FwuInv
<1> SUFFICES ASSUME Init PROVE FwuInv
  OBVIOUS
<1> USE FwuAssumption DEF Init
<1>1. Types
  BY DEF Types, States
<1>2. LoadedIsTracked /\ ExecInv /\ SizeInv /\ DisjointInv /\ AuthenticIntact
  BY DEF LoadedIsTracked, ExecInv, SizeInv, DisjointInv, AuthenticIntact, Verified
<1>3. NoUnverifiedResidue
  BY DEF NoUnverifiedResidue
<1> QED BY <1>1, <1>2, <1>3 DEF FwuInv
-----------------------------------------------------------------------------
\* A block is copied into an image that is new, or on its way.
LEMMA CopyStep ==
  ASSUME FwuInv, NEW i \in Copied, NEW n \in Nat, NEW done \in Nat, NEW b \in Sizes,
         n <= MaxSize[i], done <= n, CopyBlock(i, n, done, b),
         image_size' = [image_size EXCEPT ![i] = n], loaded' = loaded \cup {i},
         UNCHANGED <<sec_exec_image_id, world>>, Rest,
         \/ state[i] = "RESET" /\ done = 0
         \/ state[i] = "COPYING" /\ done = copied_size[i],
         \A j \in (Copied \cap loaded) \ {i} : Bytes(i, n) \cap Bytes(j, image_size[j]) = {}
  PROVE  FwuInv'
<1> USE FwuAssumption DEF FwuInv, Rest
<1> DEFINE len == MinOf(b, n - done)
           end == done + len
<1>1. i \in Image /\ i \in Secure /\ b \in Nat /\ end \in Nat /\ end <= n /\ done <= end
  BY DEF MinOf
<1>2. PICK v \in {i, Bad} : mem' = [a \in Address |-> IF a \in Bytes(i, end) \ Bytes(i, done) THEN v ELSE mem[a]]
  BY DEF CopyBlock, Fill
<1>3. /\ copied_size' = [copied_size EXCEPT ![i] = end]
      /\ state' = [state EXCEPT ![i] = IF end = n THEN "COPIED" ELSE "COPYING"]
  BY DEF CopyBlock
<1> HIDE DEF len, end
<1>4. Types'
  BY <1>1, <1>2, <1>3 DEF Types, States
<1>5. /\ state'[i] \in {"COPYING", "COPIED"} /\ copied_size'[i] = end /\ image_size'[i] = n
      /\ state'[i] = "COPIED" => end = n
      /\ \A k \in Image \ {i} : state'[k] = state[k] /\ copied_size'[k] = copied_size[k]
                                /\ image_size'[k] = image_size[k]
  BY <1>1, <1>3 DEF Types
<1>6. LoadedIsTracked' /\ ExecInv'
  BY <1>1, <1>5 DEF Types, LoadedIsTracked, ExecInv
<1>7. SizeInv'
  BY <1>1, <1>5 DEF SizeInv, Verified
<1>8. DisjointInv'
  BY <1>1, <1>5 DEF DisjointInv, Bytes
<1>9. /\ Bytes(i, done) \subseteq Bytes(i, end) /\ Bytes(i, end) \subseteq Bytes(i, n)
      /\ Bytes(i, n) \subseteq Address /\ Bytes(i, 0) = {}
  BY <1>1, Ranges
<1>10. AuthenticIntact'
  <2> SUFFICES ASSUME NEW k \in Copied
               PROVE  /\ Verified(k)' => Genuine(k, image_size[k])' /\ copied_size'[k] = image_size'[k]
                      /\ state'[k] \in {"COPYING", "COPIED"} => \A a \in Bytes(k, copied_size'[k]) : mem'[a] \in {k, Bad}
    BY DEF AuthenticIntact, Genuine, Bytes, Verified
  <2>1. CASE k = i
    <3>1. \A a \in Bytes(i, done) : mem[a] \in {i, Bad}
      BY <1>9 DEF AuthenticIntact
    <3> QED BY <2>1, <3>1, <1>2, <1>5, <1>9 DEF Verified
  <2>2. CASE k # i
    <3>1. state'[k] = state[k] /\ copied_size'[k] = copied_size[k] /\ image_size'[k] = image_size[k] /\ Verified(k)' = Verified(k)
      BY <1>5, <2>2 DEF Verified
    <3>2. ASSUME state[k] \in {"COPYING", "COPIED"} \/ Verified(k)
          PROVE  /\ Bytes(k, copied_size[k]) \subseteq Bytes(k, image_size[k])
                 /\ \A a \in Bytes(k, image_size[k]) : mem'[a] = mem[a]
      <4>1. k \in loaded /\ Bytes(k, copied_size[k]) \subseteq Bytes(k, image_size[k])
            /\ Bytes(k, image_size[k]) \subseteq Address
        BY <3>2, Listed
      <4> QED BY <1>2, <1>9, <2>2, <4>1
    <3> QED BY <3>1, <3>2 DEF AuthenticIntact, Genuine, Verified
  <2> QED BY <2>1, <2>2
<1>11. NoUnverifiedResidue'
  <2> SUFFICES ASSUME NEW a \in Address, mem'[a] = Bad
               PROVE  \/ \E k \in loaded' : state'[k] \in {"COPYING", "COPIED"} /\ a \in Bytes(k, copied_size'[k])
                      \/ \E k \in stale : a \in Bytes(k, MaxSize[k])
    BY DEF NoUnverifiedResidue, Bytes
  <2>1. CASE a \in Bytes(i, end)
    BY <2>1, <1>1, <1>5
  <2>2. CASE a \notin Bytes(i, end)
    <3>1. CASE \E k \in stale : a \in Bytes(k, MaxSize[k])
      BY <3>1
    <3>2. CASE \E k \in loaded : state[k] \in {"COPYING", "COPIED"} /\ a \in Bytes(k, copied_size[k])
      <4>1. PICK k \in loaded : state[k] \in {"COPYING", "COPIED"} /\ a \in Bytes(k, copied_size[k])
        BY <3>2
      <4>2. k # i /\ k \in Image
        BY <4>1, <2>2, <1>9 DEF Types
      <4> QED BY <4>1, <4>2, <1>5
    <3> QED BY <3>1, <3>2, <1>2, <2>2 DEF NoUnverifiedResidue
  <2> QED BY <2>1, <2>2
<1> QED BY <1>4, <1>6, <1>7, <1>8, <1>10, <1>11

\* Image i goes to RESET, and its bytes in memory, if it is in Copied, are
\* cleared.
LEMMA ClearStep ==
  ASSUME FwuInv, NEW i \in loaded, NEW n \in Nat,
         state[i] \notin {"RESET", "EXECUTED"}, n = copied_size[i],
         Fill(Bytes(i, n), Zero),
         state' = [state EXCEPT ![i] = "RESET"], loaded' = loaded \ {i},
         \/ UNCHANGED <<image_size, copied_size>>
         \/ /\ copied_size' = [copied_size EXCEPT ![i] = 0]
            /\ image_size' = [image_size EXCEPT ![i] = 0],
         UNCHANGED <<sec_exec_image_id, world>>, Rest
  PROVE  FwuInv'
<1> USE FwuAssumption DEF FwuInv, Rest
<1>1. mem' = [a \in Address |-> IF a \in Bytes(i, n) THEN Zero ELSE mem[a]] /\ i \in Image
  BY DEF Fill, Types
<1>2. Types'
  BY <1>1 DEF Types, States
<1>3. \A k \in Image \ {i} : /\ state'[k] = state[k]
                             /\ copied_size'[k] = copied_size[k] /\ image_size'[k] = image_size[k]
  BY DEF Types
<1>4. LoadedIsTracked' /\ ExecInv' /\ state'[i] = "RESET"
  BY <1>1 DEF Types, LoadedIsTracked, ExecInv
<1>5. SizeInv'
  <2>1. MaxSize[i] \in Nat
    BY <1>1
  <2>2. image_size'[i] = image_size[i] \/ image_size'[i] = 0
    BY <1>1 DEF Types
  <2>3. copied_size'[i] = copied_size[i] \/ copied_size'[i] = 0
    BY <1>1 DEF Types
  <2> QED BY <1>3, <1>4, <2>1, <2>2, <2>3 DEF Types, SizeInv, Verified
<1>6. DisjointInv'
  BY <1>3, <1>4 DEF DisjointInv, Bytes
<1>7. ASSUME NEW k \in Copied \ {i}, state[k] \in {"COPYING", "COPIED"} \/ Verified(k)
      PROVE  /\ Bytes(k, copied_size[k]) \subseteq Bytes(k, image_size[k])
             /\ \A a \in Bytes(k, image_size[k]) : mem'[a] = mem[a]
  <2>1. /\ k \in loaded /\ Bytes(k, copied_size[k]) \subseteq Bytes(k, image_size[k])
        /\ Bytes(k, image_size[k]) \subseteq Address
    BY <1>7, Listed
  <2>2. Bytes(i, n) \cap Bytes(k, image_size[k]) = {}
    <3>1. CASE i \in Copied
      <4>1. n <= image_size[i] /\ image_size[i] \in Nat
        BY <3>1 DEF Types, SizeInv
      <4>2. Bytes(i, n) \subseteq Bytes(i, image_size[i])
        BY <1>1, <4>1, Ranges
      <4> QED BY <2>1, <3>1, <4>2 DEF DisjointInv
    <3>2. CASE i \notin Copied
      <4>1. n = 0
        BY <1>1, <3>2 DEF SizeInv
      <4> QED BY <1>1, <4>1, Ranges
    <3> QED BY <3>1, <3>2
  <2> QED BY <1>1, <2>1, <2>2
<1>8. AuthenticIntact'
  <2> SUFFICES ASSUME NEW k \in Copied
               PROVE  /\ Verified(k)' => Genuine(k, image_size[k])' /\ copied_size'[k] = image_size'[k]
                      /\ state'[k] \in {"COPYING", "COPIED"} => \A a \in Bytes(k, copied_size'[k]) : mem'[a] \in {k, Bad}
    BY DEF AuthenticIntact, Genuine, Bytes, Verified
  <2>1. CASE k = i
    BY <2>1, <1>4 DEF Verified
  <2>2. CASE k # i
    <3>1. Verified(k)' = Verified(k)
      BY <2>2, <1>3 DEF Verified
    <3> QED BY <2>2, <3>1, <1>3, <1>7 DEF AuthenticIntact, Genuine, Verified
  <2> QED BY <2>1, <2>2
<1>9. NoUnverifiedResidue'
  <2> SUFFICES ASSUME NEW a \in Address, mem'[a] = Bad
               PROVE  \/ \E k \in loaded' : state'[k] \in {"COPYING", "COPIED"} /\ a \in Bytes(k, copied_size'[k])
                      \/ \E k \in stale : a \in Bytes(k, MaxSize[k])
    BY DEF NoUnverifiedResidue, Bytes
  <2>1. mem[a] = Bad /\ a \notin Bytes(i, n)
    BY <1>1
  <2>2. CASE \E k \in loaded : state[k] \in {"COPYING", "COPIED"} /\ a \in Bytes(k, copied_size[k])
    <3>1. PICK k \in loaded : state[k] \in {"COPYING", "COPIED"} /\ a \in Bytes(k, copied_size[k])
      BY <2>2
    <3>2. k # i /\ k \in Image
      BY <2>1, <3>1 DEF Types
    <3> QED BY <3>1, <3>2, <1>3
  <2> QED BY <2>1, <2>2 DEF NoUnverifiedResidue
<1> QED BY <1>2, <1>4, <1>5, <1>6, <1>8, <1>9

\* The state of an image changes and its bytes do not: it was verified before,
\* is accepted now, is not in Copied, or is resumed without having been
\* interrupted.
LEMMA StateStep ==
  ASSUME FwuInv, Types', LoadedIsTracked', ExecInv', NEW i \in Image,
         \/ /\ Verified(i)
            /\ state'[i] \in {"EXECUTED", "INTERRUPTED", "RESET"}
         \/ state[i] = "RESET" /\ i \notin Copied /\ state'[i] \in {"RESET", "AUTHENTICATED"}
         \/ state[i] = "COPIED" /\ Genuine(i, image_size[i]) /\ state'[i] = "AUTHENTICATED"
         \/ i \in stale' /\ state'[i] \in {"EXECUTED", "INTERRUPTED"}
         \/ i \in stale /\ state[i] = "EXECUTED" /\ state'[i] = "RESET",
         \A k \in Image \ {i} : state'[k] = state[k] /\ image_size'[k] = image_size[k],
         i \in Copied => image_size'[i] = image_size[i] /\ loaded' \subseteq loaded,
         i \in Copied /\ state'[i] = "RESET" => i \notin loaded',
         loaded \ {i} \subseteq loaded', loaded' \subseteq loaded \cup {i},
         stale \subseteq stale', stale' \subseteq stale \cup {i},
         UNCHANGED <<copied_size, mem>>
  PROVE  FwuInv'
<1> USE FwuAssumption DEF FwuInv
<1>1. \A k \in Image \ {i} : Verified(k)' = Verified(k)
  BY DEF Verified
<1>2. i \in Copied /\ Verified(i)' => Verified(i) \/ (state[i] = "COPIED" /\ Genuine(i, image_size[i]))
  BY DEF Verified
<1>3. state'[i] \notin {"COPYING", "COPIED"}
  OBVIOUS
<1>4. SizeInv'
  <2>1. \A k \in Image \ Copied : copied_size'[k] = 0 /\ state'[k] \notin {"COPYING", "COPIED"}
    BY <1>3 DEF SizeInv
  <2>2. ASSUME NEW k \in Copied
        PROVE  /\ image_size'[k] <= MaxSize[k]
               /\ k \in loaded' => copied_size'[k] <= image_size'[k]
               /\ k \in loaded' /\ state'[k] = "RESET" => copied_size'[k] = 0
               /\ state'[k] = "COPIED" \/ Verified(k)' => copied_size'[k] = image_size'[k]
    <3>1. k \in Image /\ image_size'[k] = image_size[k] /\ (k \in loaded' => k \in loaded)
      OBVIOUS
    <3>2. CASE k = i
      BY <3>1, <3>2, <1>2, <1>3 DEF SizeInv
    <3>3. CASE k # i
      <4>1. Verified(k)' = Verified(k) /\ state'[k] = state[k]
        BY <1>1, <3>3
      <4> QED BY <3>1, <4>1 DEF SizeInv
    <3> QED BY <3>2, <3>3
  <2> QED BY <2>1, <2>2 DEF SizeInv
<1>5. DisjointInv'
  BY DEF DisjointInv, Bytes
<1>6. AuthenticIntact'
  <2> SUFFICES ASSUME NEW k \in Copied
               PROVE  /\ Verified(k)' => Genuine(k, image_size[k]) /\ copied_size[k] = image_size[k]
                      /\ state'[k] \in {"COPYING", "COPIED"} => \A a \in Bytes(k, copied_size[k]) : mem[a] \in {k, Bad}
    BY DEF AuthenticIntact, Genuine, Bytes, Verified
  <2>1. CASE k = i
    <3>1. Verified(i) => Genuine(i, image_size[i]) /\ copied_size[i] = image_size[i]
      BY <2>1 DEF AuthenticIntact, Verified
    <3>2. state[i] = "COPIED" => copied_size[i] = image_size[i]
      BY <2>1 DEF SizeInv
    <3> QED BY <2>1, <3>1, <3>2, <1>2, <1>3
  <2>2. CASE k # i
    BY <2>2, <1>1 DEF AuthenticIntact, Verified
  <2> QED BY <2>1, <2>2
<1>7. NoUnverifiedResidue'
  <2> SUFFICES ASSUME NEW a \in Address, mem[a] = Bad
               PROVE  \/ \E k \in loaded' : state'[k] \in {"COPYING", "COPIED"} /\ a \in Bytes(k, copied_size[k])
                      \/ \E k \in stale' : a \in Bytes(k, MaxSize[k])
    BY DEF NoUnverifiedResidue, Bytes
  <2>1. CASE \E k \in stale : a \in Bytes(k, MaxSize[k])
    BY <2>1
  <2>2. CASE \E k \in loaded : state[k] \in {"COPYING", "COPIED"} /\ a \in Bytes(k, copied_size[k])
    <3>1. PICK k \in loaded : state[k] \in {"COPYING", "COPIED"} /\ a \in Bytes(k, copied_size[k])
      BY <2>2
    <3>2. CASE k # i
      BY <3>1, <3>2 DEF Types
    <3>3. CASE k = i
      <4>1. i \in Copied
        BY <3>1, <3>3 DEF SizeInv
      <4>2. /\ copied_size[i] \in Nat /\ MaxSize[i] \in Nat /\ copied_size[i] <= MaxSize[i]
            /\ state[i] = "COPIED" => copied_size[i] = image_size[i]
        BY <3>1, <3>3, <4>1 DEF SizeInv, Types
      <4>3. a \in Bytes(i, MaxSize[i])
        BY <3>1, <3>3, <4>2, Ranges
      <4>4. ~(state[i] = "COPIED" /\ Genuine(i, image_size[i]))
        BY <3>1, <3>3, <4>2 DEF Genuine
      <4>5. i \in stale'
        BY <3>1, <3>3, <4>1, <4>4 DEF Verified
      <4> QED BY <4>3, <4>5
    <3> QED BY <3>2, <3>3
  <2> QED BY <2>1, <2>2 DEF NoUnverifiedResidue
<1> QED BY <1>4, <1>5, <1>6, <1>7

\* A refused copy changes no image that counts.
LEMMA RefusedStep ==
  ASSUME FwuInv, NEW i \in Copied, NEW n \in Sizes, CopyRefused(i, n)
  PROVE  FwuInv'
<1> USE FwuAssumption DEF FwuInv, CopyRefused, Rest
<1>1. /\ i \in Image /\ n \in Nat /\ state[i] = "RESET" /\ n <= MaxSize[i]
      /\ \A k \in Image \ {i} : image_size'[k] = image_size[k] /\ copied_size'[k] = copied_size[k]
      /\ loaded \subseteq loaded' /\ loaded' \subseteq loaded \cup {i}
      /\ image_size'[i] \in {0, n} /\ image_size' \in [Image -> Nat] /\ copied_size' \in [Image -> Nat]
  BY DEF Types
<1>2. Types' /\ LoadedIsTracked' /\ ExecInv'
  BY <1>1 DEF Types, LoadedIsTracked, ExecInv
<1>3. i \in loaded' => copied_size'[i] = 0
  BY <1>1 DEF Types, SizeInv
<1>4. SizeInv'
  <2>1. image_size'[i] <= MaxSize[i] /\ ~Verified(i)'
    BY <1>1 DEF Verified
  <2>2. \A k \in Copied \ {i} : Verified(k)' = Verified(k)
    BY DEF Verified
  <2> QED BY <1>1, <1>3, <2>1, <2>2 DEF SizeInv
<1>5. DisjointInv'
  <2>1. i \in loaded' =>
          \A k \in (Copied \cap loaded) \ {i} : Bytes(i, image_size'[i]) \cap Bytes(k, image_size[k]) = {}
    <3>1. CASE image_size'[i] = 0
      BY <1>1, <3>1, Ranges
    <3>2. CASE ~Overlaps(i, n) /\ image_size'[i] = n
      BY <3>2 DEF Overlaps, Overlap
    <3> QED BY <1>1, <3>1, <3>2 DEF Types
  <2> QED BY <1>1, <2>1 DEF DisjointInv, Bytes
<1>6. AuthenticIntact'
  BY <1>1 DEF AuthenticIntact, Genuine, Bytes
<1>7. NoUnverifiedResidue'
  <2> SUFFICES ASSUME NEW a \in Address, mem[a] = Bad
               PROVE  \/ \E k \in loaded' : state[k] \in {"COPYING", "COPIED"} /\ a \in Bytes(k, copied_size'[k])
                      \/ \E k \in stale : a \in Bytes(k, MaxSize[k])
    BY DEF NoUnverifiedResidue, Bytes
  <2> QED BY <1>1 DEF NoUnverifiedResidue, Types
<1> QED BY <1>2, <1>4, <1>5, <1>6, <1>7

\* A failed assertion, the end of the update and a stuttering step.
LEMMA HaltStep == ASSUME FwuInv, Halt \/ UNCHANGED vars PROVE FwuInv'
<1>1. /\ UNCHANGED <<state, image_size, copied_size, loaded, sec_exec_image_id, mem, world, ENABLE_ASSERTIONS, stale>>
      /\ halted' \in BOOLEAN
  BY DEF Halt, vars, desc, FwuInv, Types
<1>2. Types' /\ LoadedIsTracked' /\ ExecInv' /\ SizeInv'
  BY <1>1 DEF FwuInv, Types, LoadedIsTracked, ExecInv, SizeInv, Verified
<1>3. DisjointInv' /\ AuthenticIntact' /\ NoUnverifiedResidue'
  BY <1>1 DEF FwuInv, DisjointInv, AuthenticIntact, NoUnverifiedResidue, Genuine, Bytes
<1> QED BY <1>2, <1>3 DEF FwuInv
-----------------------------------------------------------------------------
\* The first block: bl1_fwu_image_check_overlaps() looked at every loaded image.
LEMMA CopyFirstStep ==
  ASSUME FwuInv, NEW i \in Copied, NEW n \in Sizes, NEW b \in Sizes, CopyFirst(i, n, b)
  PROVE  FwuInv'
<1> USE FwuAssumption DEF FwuInv, CopyFirst
<1>1. \A k \in (Copied \cap loaded) \ {i} : Bytes(i, n) \cap Bytes(k, image_size[k]) = {}
  BY DEF Overlaps, Overlap
<1>2. n \in Nat /\ 0 \in Nat /\ 0 <= n /\ n <= MaxSize[i] /\ CopyBlock(i, n, 0, b)
  OBVIOUS
<1>3. /\ state[i] = "RESET" /\ image_size' = [image_size EXCEPT ![i] = n] /\ loaded' = loaded \cup {i}
      /\ UNCHANGED <<sec_exec_image_id, world>> /\ Rest
  OBVIOUS
<1> HIDE DEF FwuInv, CopyFirst
<1> QED BY <1>1, <1>2, <1>3, CopyStep

\* A later block stays within the size the first one announced.
LEMMA CopyNextStep ==
  ASSUME FwuInv, NEW i \in Copied, NEW b \in Sizes, CopyNext(i, b)
  PROVE  FwuInv'
<1> USE FwuAssumption DEF FwuInv, CopyNext
<1>1. i \in loaded /\ loaded' = loaded \cup {i}
  BY DEF LoadedIsTracked
<1>2. image_size' = [image_size EXCEPT ![i] = image_size[i]]
  BY DEF Types
<1>3. /\ image_size[i] \in Nat /\ copied_size[i] \in Nat
      /\ image_size[i] <= MaxSize[i] /\ copied_size[i] <= image_size[i]
  BY <1>1 DEF Types, SizeInv
<1>4. \A k \in (Copied \cap loaded) \ {i} : Bytes(i, image_size[i]) \cap Bytes(k, image_size[k]) = {}
  BY <1>1 DEF DisjointInv
<1>5. /\ state[i] = "COPYING" /\ CopyBlock(i, image_size[i], copied_size[i], b)
      /\ UNCHANGED <<sec_exec_image_id, world>> /\ Rest
  OBVIOUS
<1> HIDE DEF FwuInv, CopyNext
<1> QED BY <1>1, <1>2, <1>3, <1>4, <1>5, CopyStep

\* Authentication of a copied image accepts it or clears it.
LEMMA AuthCopiedStep ==
  ASSUME FwuInv, NEW i \in Image, AuthCopied(i)
  PROVE  FwuInv'
<1> USE FwuAssumption DEF FwuInv, AuthCopied
<1>1. i \in Copied /\ i \in loaded /\ copied_size[i] = image_size[i] /\ image_size[i] \in Nat
  BY DEF SizeInv, Types, LoadedIsTracked
<1>2. CASE Genuine(i, image_size[i]) /\ state' = [state EXCEPT ![i] = "AUTHENTICATED"] /\ UNCHANGED <<loaded, mem>>
  <2>1. state'[i] = "AUTHENTICATED" /\ \A k \in Image \ {i} : state'[k] = state[k]
    BY <1>2 DEF Types
  <2>2. Types' /\ LoadedIsTracked' /\ ExecInv'
    BY <1>1, <1>2, <2>1 DEF Types, States, LoadedIsTracked, ExecInv, Rest
  <2> QED BY <1>2, <2>1, <2>2, StateStep DEF Rest
<1>3. CASE /\ Fill(Bytes(i, image_size[i]), Zero)
           /\ state' = [state EXCEPT ![i] = "RESET"] /\ loaded' = loaded \ {i}
  BY <1>1, <1>3, ClearStep
<1> QED BY <1>2, <1>3

\* Authentication in place, of an image that is never copied.
LEMMA AuthInPlaceStep ==
  ASSUME FwuInv, NEW i \in Image, NEW n \in InPlaceSizes, AuthInPlace(i, n)
  PROVE  FwuInv'
<1> USE FwuAssumption DEF FwuInv, AuthInPlace, Rest
<1>1. i \notin Copied /\ n \in Nat
  OBVIOUS
<1>2. state'[i] \in {"AUTHENTICATED", "RESET"} /\ state[i] = "RESET"
      /\ \A k \in Image \ {i} : state'[k] = state[k] /\ image_size'[k] = image_size[k]
  BY DEF Types
<1>3. Types' /\ LoadedIsTracked' /\ ExecInv'
  BY <1>1, <1>2 DEF Types, States, LoadedIsTracked, ExecInv
<1>4. loaded \ {i} \subseteq loaded' /\ loaded' \subseteq loaded \cup {i}
  OBVIOUS
<1> QED BY <1>1, <1>2, <1>3, <1>4, StateStep

\* FWU_SMC_IMAGE_EXECUTE gives the CPU to the secure world.
LEMMA ExecuteStep ==
  ASSUME FwuInv, NEW i \in Image, Execute(i)
  PROVE  FwuInv'
<1> USE FwuAssumption DEF FwuInv, Execute, CallFrom, Rest
<1>1. state'[i] = "EXECUTED" /\ \A k \in Image \ {i} : state'[k] = state[k]
  BY DEF Types
<1>2. Types' /\ LoadedIsTracked' /\ ExecInv' /\ Verified(i)
  BY <1>1 DEF Types, States, LoadedIsTracked, ExecInv, Verified
<1> QED BY <1>1, <1>2, StateStep

\* FWU_SMC_IMAGE_RESUME changes the world and the state together.
LEMMA ResumeStep ==
  ASSUME FwuInv, Resume
  PROVE  FwuInv'
<1> USE FwuAssumption DEF FwuInv
<1> DEFINE i == sec_exec_image_id
           expected == IF world = "S" THEN "EXECUTED" ELSE "INTERRUPTED"
<1>1. i \in Image /\ i \in Secure
  BY DEF Types, Resume
<1>2. CASE ENABLE_ASSERTIONS /\ state[i] # expected
  BY <1>2, HaltStep DEF Resume
<1>3. CASE ~(ENABLE_ASSERTIONS /\ state[i] # expected)
  <2>0. /\ state' = [state EXCEPT ![i] = IF world = "S" THEN "INTERRUPTED" ELSE "EXECUTED"]
        /\ world' = IF world = "S" THEN "NS" ELSE "S"
        /\ stale' = IF state[i] = expected THEN stale ELSE stale \cup {i}
        /\ UNCHANGED <<image_size, copied_size, loaded, sec_exec_image_id, mem, halted, ENABLE_ASSERTIONS>>
    BY <1>3 DEF Resume
  <2>1. /\ state'[i] = (IF world = "S" THEN "INTERRUPTED" ELSE "EXECUTED")
        /\ \A k \in Image \ {i} : state'[k] = state[k]
    BY <1>1, <2>0 DEF Types
  <2>2. Types' /\ ExecInv'
    BY <1>1, <2>0, <2>1 DEF Types, States, ExecInv
  <2>3. LoadedIsTracked'
    BY <1>1, <2>0, <2>1 DEF LoadedIsTracked
  <2>4. Verified(i) \/ i \in stale'
    BY <2>0 DEF Verified
  <2> QED BY <1>1, <2>0, <2>1, <2>2, <2>3, <2>4, StateStep
<1> QED BY <1>2, <1>3

\* FWU_SMC_SEC_IMAGE_DONE finds its image executing.
LEMMA SecImageDoneStep ==
  ASSUME FwuInv, SecImageDone
  PROVE  FwuInv'
<1> USE FwuAssumption DEF FwuInv, SecImageDone, CallFrom, Rest
<1> DEFINE i == sec_exec_image_id
<1>1. i \in Image /\ i \in Secure /\ state[i] = "EXECUTED" /\ (Verified(i) \/ i \in stale)
  BY DEF ExecInv, Verified
<1>2. state'[i] = "RESET" /\ \A k \in Image \ {i} : state'[k] = state[k]
  BY <1>1 DEF Types
<1>3. Types' /\ LoadedIsTracked' /\ ExecInv'
  BY <1>1, <1>2 DEF Types, States, LoadedIsTracked, ExecInv
<1> QED BY <1>1, <1>2, <1>3, StateStep

\* FWU_SMC_IMAGE_RESET clears what was copied.
LEMMA ImageResetStep ==
  ASSUME FwuInv, NEW i \in Image, ImageReset(i)
  PROVE  FwuInv'
<1>1. copied_size[i] \in Nat /\ state[i] \notin {"RESET", "EXECUTED"} /\ i \in loaded
  BY DEF FwuInv, Types, ImageReset
<1> QED BY <1>1, ClearStep DEF ImageReset

\* One step per action.
LEMMA InvStep == FwuInv /\ [Next]_vars => FwuInv'
<1> SUFFICES ASSUME FwuInv, [Next]_vars PROVE FwuInv'
  OBVIOUS
<1>1. CASE \E i \in Copied, n, b \in Sizes : CopyFirst(i, n, b)
  BY <1>1, CopyFirstStep
<1>2. CASE \E i \in Copied, n \in Sizes : CopyRefused(i, n) \/ CopyAsserts(i, n)
  BY <1>2, RefusedStep, HaltStep DEF CopyAsserts
<1>3. CASE \E i \in Copied, b \in Sizes : CopyNext(i, b)
  BY <1>3, CopyNextStep
<1>4. CASE \E i \in Image : AuthCopied(i) \/ Execute(i) \/ ImageReset(i) \/ ResetAsserts(i)
  BY <1>4, AuthCopiedStep, ExecuteStep, ImageResetStep, HaltStep DEF ResetAsserts
<1>5. CASE \E i \in Image, n \in InPlaceSizes : AuthInPlace(i, n)
  BY <1>5, AuthInPlaceStep
<1>6. CASE Resume \/ SecImageDone \/ Done
  BY <1>6, ResumeStep, SecImageDoneStep, HaltStep DEF Done
<1>7. CASE UNCHANGED vars
  BY <1>7, HaltStep
<1> QED BY <1>1, <1>2, <1>3, <1>4, <1>5, <1>6, <1>7 DEF Next

\* The inductive invariant holds.
LEMMA Invariance == Spec => []FwuInv
  BY InvInit, InvStep, PTL DEF Spec

\* Whatever the images, in whatever order they are copied, authenticated, run
\* and reset, and in both builds, one that is not in the RESET state is in
\* bl1_fwu_loaded_ids[], where bl1_fwu_image_check_overlaps() finds it; the
\* exceptions are NS_BL1U and an image resumed without having been interrupted.
THEOREM Tracked == Spec => []LoadedIsTracked
  BY Invariance, PTL DEF FwuInv

\* Whatever memory the images share, no copy, failed authentication or reset
\* of one changes a byte of another: what was authenticated stays as it was
\* until it is reset, and is what runs, unless it is resumed without having
\* been interrupted.
THEOREM Intact == Spec => []AuthenticIntact
  BY Invariance, PTL DEF FwuInv

\* The secure world runs exactly while the image of sec_exec_image_id is the
\* one secure image in the EXECUTED state, so the assertions of its calls hold,
\* and where they are compiled out nothing depends on them.
THEOREM Executing == Spec => []SecureWorldIsExecuting
<1>1. FwuInv => SecureWorldIsExecuting
  BY FwuAssumption DEF FwuInv, Types, ExecInv, SecureWorldIsExecuting
<1> QED BY <1>1, Invariance, PTL

\* No byte that was never authenticated stays in memory without an image in
\* the list whose copying or authentication will clear it or accept it, unless
\* an image there was resumed without having been interrupted.
THEOREM NoResidue == Spec => []NoUnverifiedResidue
  BY Invariance, PTL DEF FwuInv
=============================================================================
