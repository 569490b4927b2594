------------------------------- MODULE Bl1Fwu -------------------------------
(***************************************************************************)
(* bl1/bl1_fwu.c: the firmware update state machine of BL1, which copies,  *)
(* authenticates and runs images at the request of the normal world.       *)
(*                                                                         *)
(* Memory holds, at each address, the id of the image whose genuine byte   *)
(* is there, Bad for any other byte of a source, or Zero.  A call that BL1 *)
(* refuses without changing anything is left out.  BL1 is built with or    *)
(* without assertions (ENABLE_ASSERTIONS, which follows DEBUG): one that   *)
(* fails stops it, or is not there.                                        *)
(*                                                                         *)
(* The clients follow docs/firmware-update.rst in which images they treat  *)
(* how: the normal world copies the images of Copied, and the secure world *)
(* authenticates the other secure images where they are.                   *)
(***************************************************************************)
EXTENDS Integers, FiniteSets

CONSTANTS Image, Secure, Copied,  \* Copied \subseteq Secure \subseteq Image
          Executable,
          NS_BL1U,                \* the non-secure image BL1 starts the update with
          Base, MaxSize,          \* per image: image_base, image_max_size
          Sizes,                  \* sizes of copied images and of blocks
          InPlaceSizes,           \* sizes of the images authenticated in place
          FWU_MAX_SIMULTANEOUS_IMAGES,
          Bad, Zero, None

ASSUME FwuAssumption ==
  /\ Copied \subseteq Secure /\ Secure \subseteq Image /\ Executable \subseteq Image
  /\ NS_BL1U \in Image \ Secure
  /\ Base \in [Image -> Nat] /\ MaxSize \in [Image -> Nat] 
  /\ Sizes \subseteq Nat \ {0} /\ InPlaceSizes \subseteq Nat \ {0}
  /\ FWU_MAX_SIMULTANEOUS_IMAGES \in Nat \ {0}
  /\ {Bad, Zero, None} \cap Image = {} /\ Bad # Zero

VARIABLES state, image_size, copied_size,  \* per image, of its descriptor
          loaded,                          \* the ids in bl1_fwu_loaded_ids[]
          sec_exec_image_id,
          mem,
          world,                           \* who makes the next call
          halted,                          \* an assertion failed, or the update is done
          ENABLE_ASSERTIONS,               \* of the build
          stale                            \* history: images that the normal world
                                           \* resumed while they were not INTERRUPTED

desc == <<state, image_size, copied_size>>
vars == <<desc, loaded, sec_exec_image_id, mem, world, halted,
          ENABLE_ASSERTIONS, stale>>

States == {"RESET", "COPYING", "COPIED", "AUTHENTICATED", "EXECUTED", "INTERRUPTED"}
Address == UNION {Base[i]..(Base[i] + MaxSize[i] - 1) : i \in Image}

TypeOK == /\ state \in [Image -> States]
          /\ image_size \in [Image -> Nat] /\ copied_size \in [Image -> Nat]
          /\ \A i \in Copied : image_size[i] <= MaxSize[i] /\ copied_size[i] <= MaxSize[i]
          /\ loaded \subseteq Image /\ Cardinality(loaded) <= FWU_MAX_SIMULTANEOUS_IMAGES
          /\ sec_exec_image_id \in Image \cup {None}
          /\ mem \in [Address -> Image \cup {Bad, Zero}]
          /\ world \in {"NS", "S"} /\ halted \in BOOLEAN
          /\ ENABLE_ASSERTIONS \in BOOLEAN /\ stale \subseteq Image

\* bl1_main() has started NS_BL1U, which makes the calls of the normal world.
Init == /\ state = [i \in Image |-> IF i = NS_BL1U THEN "EXECUTED" ELSE "RESET"]
        /\ image_size = [i \in Image |-> 0] /\ copied_size = [i \in Image |-> 0]
        /\ loaded = {} /\ sec_exec_image_id = None
        /\ mem = [a \in Address |-> Zero]
        /\ world = "NS" /\ halted = FALSE
        /\ ENABLE_ASSERTIONS \in BOOLEAN /\ stale = {}

Bytes(i, n) == Base[i]..(Base[i] + n - 1)
Fill(as, v) == mem' = [a \in Address |-> IF a \in as THEN v ELSE mem[a]]
MinOf(a, b) == IF a < b THEN a ELSE b

\* A call of the SMC handler from world w.
CallFrom(w) == world = w /\ ~halted

\* What only the state changes of RESUME and a halt change.
Rest == UNCHANGED <<halted, ENABLE_ASSERTIONS, stale>>

Halt == /\ halted' = TRUE
        /\ UNCHANGED <<desc, loaded, sec_exec_image_id, mem, world, ENABLE_ASSERTIONS, stale>>
-----------------------------------------------------------------------------
\* bl1_fwu_add_loaded_id() finds the id, or a slot for it.
add_loaded_id(i) == i \in loaded \/ Cardinality(loaded) < FWU_MAX_SIMULTANEOUS_IMAGES

\* The memory of image i, of size n, and of j in the list overlaps.
Overlap(i, n, j) == Bytes(i, n) \cap Bytes(j, image_size[j]) # {}

\* Mutant: only the start of the image is checked.
Overlaps_StartOnly(i, n) == \E j \in loaded \ {i} : Base[i] \in Bytes(j, image_size[j])

\* bl1_fwu_image_check_overlaps() against what is loaded or being loaded.
Overlaps(i, n) == \E j \in loaded \ {i} : Overlap(i, n, j)

\* Its assertions on an entry of the list: it is not in the RESET state, and if
\* it is not empty it does not end where it begins.
SlotAsserts(j) == ENABLE_ASSERTIONS => state[j] # "RESET" /\ image_size[j] # 1
OverlapAsserts(i) == \A j \in loaded \ {i} : SlotAsserts(j)

\* The first block of an image is refused: nothing but the sizes changes.  The
\* overlap may come in the list before an entry that fails an assertion.
CopyRefused(i, n) ==
  /\ CallFrom("NS") /\ state[i] = "RESET" /\ n <= MaxSize[i]
  /\ \/ /\ \E j \in loaded \ {i} : SlotAsserts(j) /\ Overlap(i, n, j)
        /\ image_size' = [image_size EXCEPT ![i] = 0] /\ UNCHANGED <<copied_size, loaded>>
     \/ \* the source is not mapped, there is no slot, or the platform refuses
        /\ OverlapAsserts(i) /\ ~Overlaps(i, n)
        /\ image_size' = [image_size EXCEPT ![i] = n]
        /\ copied_size' = [copied_size EXCEPT ![i] = 0]
        /\ \/ UNCHANGED loaded
           \/ add_loaded_id(i) /\ loaded' = loaded \cup {i}
  /\ UNCHANGED <<state, sec_exec_image_id, mem, world>> /\ Rest

\* The block b of an image of size n is copied behind the done bytes.
CopyBlock(i, n, done, b) ==
  LET len == MinOf(b, n - done) IN
  /\ \E v \in {i, Bad} : Fill(Bytes(i, done + len) \ Bytes(i, done), v)
  /\ copied_size' = [copied_size EXCEPT ![i] = done + len]
  /\ state' = [state EXCEPT ![i] = IF done + len = n THEN "COPIED" ELSE "COPYING"]

\* bl1_fwu_image_copy(): the first block ...
CopyFirst(i, n, b) == /\ CallFrom("NS") /\ state[i] = "RESET" /\ n <= MaxSize[i]
                      /\ OverlapAsserts(i) /\ ~Overlaps(i, n) /\ add_loaded_id(i)
                      /\ image_size' = [image_size EXCEPT ![i] = n]
                      /\ loaded' = loaded \cup {i}
                      /\ CopyBlock(i, n, 0, b)
                      /\ UNCHANGED <<sec_exec_image_id, world>> /\ Rest

CopyAsserts(i, n) == /\ CallFrom("NS") /\ state[i] = "RESET" /\ n <= MaxSize[i]
                     /\ ~OverlapAsserts(i)
                     /\ Halt

\* ... and the following ones.
CopyNext(i, b) == /\ CallFrom("NS") /\ state[i] = "COPYING"
                  /\ CopyBlock(i, image_size[i], copied_size[i], b)
                  /\ UNCHANGED <<image_size, loaded, sec_exec_image_id, world>> /\ Rest
-----------------------------------------------------------------------------
\* What auth_mod_verify_img() accepts: all the bytes in memory are genuine.
Genuine(i, n) == \A a \in Bytes(i, n) : mem[a] = i

\* Mutant: a failed image is left in memory.
AuthCopied_NoClear(i) ==
  /\ CallFrom("NS") /\ i \in Secure /\ state[i] = "COPIED"
  /\ \/ /\ Genuine(i, image_size[i])
        /\ state' = [state EXCEPT ![i] = "AUTHENTICATED"] /\ UNCHANGED loaded
     \/ state' = [state EXCEPT ![i] = "RESET"] /\ loaded' = loaded \ {i}
  /\ UNCHANGED <<image_size, copied_size, sec_exec_image_id, mem, world>> /\ Rest

\* bl1_fwu_image_auth() of an image that was copied.  Genuine bytes are refused
\* as well, when what authenticates them is missing ...
AuthCopied(i) ==
  /\ CallFrom("NS") /\ i \in Secure /\ state[i] = "COPIED"
  /\ \/ /\ Genuine(i, image_size[i])
        /\ state' = [state EXCEPT ![i] = "AUTHENTICATED"] /\ UNCHANGED <<loaded, mem>>
     \/ /\ Fill(Bytes(i, image_size[i]), Zero)
        /\ state' = [state EXCEPT ![i] = "RESET"]
        /\ loaded' = loaded \ {i}
  /\ UNCHANGED <<image_size, copied_size, sec_exec_image_id, world>> /\ Rest

\* Mutant: the id is not recorded.
AuthInPlace_Untracked(i, n) ==
  /\ CallFrom(world)
  /\ IF world = "NS" THEN i \notin Secure ELSE i \notin Copied
  /\ state[i] = "RESET"
  /\ image_size' = [image_size EXCEPT ![i] = n]
  /\ state' \in {state, [state EXCEPT ![i] = "AUTHENTICATED"]}
  /\ UNCHANGED <<loaded, copied_size, sec_exec_image_id, mem, world>> /\ Rest

\* ... and of one that is authenticated where it is.
AuthInPlace(i, n) ==
  /\ CallFrom(world)
  /\ IF world = "NS" THEN i \notin Secure ELSE i \notin Copied
  /\ state[i] = "RESET" /\ add_loaded_id(i)
  /\ image_size' = [image_size EXCEPT ![i] = n]
  /\ \/ state' = [state EXCEPT ![i] = "AUTHENTICATED"] /\ loaded' = loaded \cup {i}
     \/ loaded' = loaded \ {i} /\ UNCHANGED state
  /\ UNCHANGED <<copied_size, sec_exec_image_id, mem, world>> /\ Rest
-----------------------------------------------------------------------------
\* bl1_fwu_image_execute(), bl1_prepare_next_image() included.
Execute(i) == /\ CallFrom("NS") /\ i \in Secure \cap Executable
              /\ state[i] = "AUTHENTICATED"
              /\ state' = [state EXCEPT ![i] = "EXECUTED"]
              /\ sec_exec_image_id' = i
              /\ world' = "S"
              /\ UNCHANGED <<image_size, copied_size, loaded, mem>> /\ Rest

\* bl1_fwu_image_resume(), from either world.  Only the assertions look at the
\* state of the image.
Resume ==
  LET i == sec_exec_image_id
      expected == IF world = "S" THEN "EXECUTED" ELSE "INTERRUPTED"
  IN  /\ CallFrom(world) /\ i # None
      /\ IF ENABLE_ASSERTIONS /\ state[i] # expected
         THEN Halt
         ELSE /\ state' = [state EXCEPT ![i] = IF world = "S" THEN "INTERRUPTED" ELSE "EXECUTED"]
              /\ world' = IF world = "S" THEN "NS" ELSE "S"
              /\ stale' = IF state[i] = expected THEN stale ELSE stale \cup {i}
              /\ UNCHANGED <<image_size, copied_size, loaded, sec_exec_image_id, mem,
                             halted, ENABLE_ASSERTIONS>>

\* Mutant: the image stays in the EXECUTED state.
SecImageDone_KeepsState == /\ CallFrom("S")
                           /\ loaded' = loaded \ {sec_exec_image_id}
                           /\ sec_exec_image_id' = None
                           /\ world' = "NS"
                           /\ UNCHANGED <<desc, mem>> /\ Rest

\* bl1_fwu_sec_image_done()
SecImageDone == /\ CallFrom("S")
                /\ loaded' = loaded \ {sec_exec_image_id}
                /\ state' = [state EXCEPT ![sec_exec_image_id] = "RESET"]
                /\ sec_exec_image_id' = None
                /\ world' = "NS"
                /\ UNCHANGED <<image_size, copied_size, mem>> /\ Rest

\* bl1_fwu_image_reset()
ImageReset(i) == /\ CallFrom("NS")
                 /\ state[i] \in {"INTERRUPTED", "AUTHENTICATED", "COPIED", "COPYING"}
                 /\ i \in loaded
                 /\ loaded' = loaded \ {i}
                 /\ Fill(Bytes(i, copied_size[i]), Zero)
                 /\ copied_size' = [copied_size EXCEPT ![i] = 0]
                 /\ image_size' = [image_size EXCEPT ![i] = 0]
                 /\ state' = [state EXCEPT ![i] = "RESET"]
                 /\ UNCHANGED <<sec_exec_image_id, world>> /\ Rest

\* Its assertion that no executing image is reset; without it the call returns.
ResetAsserts(i) == CallFrom("NS") /\ state[i] = "EXECUTED" /\ ENABLE_ASSERTIONS /\ Halt

\* bl1_fwu_done(), which does not return.
Done == CallFrom(world) /\ Halt

Next == \/ \E i \in Copied, n, b \in Sizes : CopyFirst(i, n, b)
        \/ \E i \in Copied, n \in Sizes : CopyRefused(i, n) \/ CopyAsserts(i, n)
        \/ \E i \in Copied, b \in Sizes : CopyNext(i, b)
        \/ \E i \in Image : AuthCopied(i) \/ Execute(i) \/ ImageReset(i) \/ ResetAsserts(i)
        \/ \E i \in Image, n \in InPlaceSizes : AuthInPlace(i, n)
        \/ Resume \/ SecImageDone \/ Done

Spec == Init /\ [][Next]_vars
-----------------------------------------------------------------------------
\* An image that is not in the RESET state is in bl1_fwu_loaded_ids[], so that
\* no later copy skips it in the overlap check, and its reset finds it there.
\* NS_BL1U, which BL1 starts itself, never is.  Without assertions
\* FWU_SMC_IMAGE_RESUME runs what sec_exec_image_id names although that image
\* was reset: such an image need not be in the list while it runs.
LoadedIsTracked ==
  \A i \in Image \ {NS_BL1U} :
    state[i] # "RESET" =>
      i \in loaded \/ (i \in stale /\ state[i] \in {"EXECUTED", "INTERRUPTED"})

\* No operation on one image changes another: until it is reset or runs to its
\* end an authenticated image is genuine and complete in memory, and the blocks
\* of one that is not authenticated yet are all where they were copied to,
\* although images share memory and are only checked against those in the list.
\* An image that runs is the one that was authenticated, unless it was resumed
\* without having been interrupted.
AuthenticIntact ==
  \A i \in Copied :
    /\ \/ state[i] = "AUTHENTICATED"
       \/ state[i] \in {"EXECUTED", "INTERRUPTED"} /\ i \notin stale
       => Genuine(i, image_size[i]) /\ copied_size[i] = image_size[i]
    /\ state[i] \in {"COPYING", "COPIED"} => \A a \in Bytes(i, copied_size[i]) : mem[a] \in {i, Bad}

\* The secure world runs exactly when the image of sec_exec_image_id is in the
\* EXECUTED state, and no other secure image ever is: the assertions on its
\* state in the calls of the secure world hold in both builds, and of the
\* images of the update FWU_SMC_IMAGE_RESET can only meet NS_BL1U executing.
SecureWorldIsExecuting ==
  {i \in Secure : state[i] = "EXECUTED"} = IF world = "S" THEN {sec_exec_image_id} ELSE {}

\* A failed authentication, a reset or the end of an image leaves no byte of
\* an unfinished image behind: memory that no loaded image occupies holds no
\* byte that was never authenticated, unless an image there was resumed
\* without having been interrupted.
NoUnverifiedResidue ==
  \A a \in Address : mem[a] = Bad =>
    \/ \E i \in loaded : state[i] \in {"COPYING", "COPIED"} /\ a \in Bytes(i, copied_size[i])
    \/ \E i \in stale : a \in Bytes(i, MaxSize[i])
=============================================================================
