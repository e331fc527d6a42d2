------------------------------- MODULE Digest -------------------------------
(***************************************************************************)
(* The hash of crypto.c and the loader of modules that asks for it         *)
(* (lkm.c).  A byte of the message is its place in the message; what is    *)
(* modelled is which bytes reach the compression, in which blocks.  The    *)
(* compression is not computed: a block joins the sequence of those that   *)
(* entered the hash.                                                       *)
(***************************************************************************)
EXTENDS Integers, Sequences, SequencesExt

CONSTANTS Block,   \* 64: bytes of a block
          Room,    \* 56: bytes of a block before the length of the message
          Trailer, \* 136: the signature and the magic number after a module
          MaxLen   \* bound: bytes of a message

DigestConstants == Room \in 1 .. Block - 1 /\ MaxLen \in Nat /\ Trailer \in Nat

VARIABLES caller,   \* "none", "call" of sha256_hash, or "module": lkm_load
          phase,    \* "idle", "update", "ruined", "hashed", "done"
          len,      \* bytes of the message
          data,     \* bytes of it taken
          buffer,   \* ctx->buffer[0 .. buffer_len - 1]
          hash,     \* the blocks that were compressed
          loaded    \* what lkm_load returned

digestVars == <<caller, phase, len, data, buffer, hash, loaded>>

Byte(i) == <<"byte", i>>
One     == <<"one">>       \* 0x80
Zero    == <<"zero">>
Length(n) == [i \in 1 .. Block - Room |-> <<"length", n, i>>]

Init == /\ caller = "none" /\ phase = "idle" /\ len = 0 /\ data = 0
        /\ buffer = <<>> /\ hash = <<>> /\ loaded = "no"

\* ctx->buffer is Block bytes: a block is compressed when it is full.
sha256_transform(b) == hash' = Append(hash, b)
Zeros(n) == [i \in 1 .. n |-> Zero]

sha256_init_ctx(who, n) ==
  /\ phase = "idle"
  /\ caller' = who /\ phase' = "update" /\ len' = n
  /\ data' = 0 /\ buffer' = <<>> /\ hash' = <<>>

\* syscall.c sys_sha256 hashes any bytes of a program.
sha256_hash(n) == sha256_init_ctx("call", n) /\ UNCHANGED loaded

\* The module is long enough, and its magic number is right or not; the hash covers what is
\* before the signature.
lkm_load(size, magic) ==
  IF size <= Trailer \/ ~magic
  THEN /\ phase = "idle" /\ phase' = "done" /\ caller' = "module" /\ loaded' = "refused"
       /\ UNCHANGED <<len, data, buffer, hash>>
  ELSE sha256_init_ctx("module", size - Trailer) /\ UNCHANGED loaded

\* One turn of the loop of sha256_update_ctx: a full buffer is compressed only when more
\* bytes are left.
sha256_update_ctx ==
  /\ phase = "update" /\ data < len
  /\ LET had == IF Len(buffer) = Block THEN <<>> ELSE buffer
         i == IF Block - Len(had) > len - data THEN len - data ELSE Block - Len(had) IN
     /\ IF Len(buffer) = Block THEN sha256_transform(buffer) ELSE UNCHANGED hash
     /\ buffer' = had \o [k \in 1 .. i |-> Byte(data + k)]
     /\ data' = data + i
  /\ UNCHANGED <<caller, phase, len, loaded>>

\* Mutated form of NoRoom: a block that is full before the length is taken for one with none.
NoRoomEarly(n) == n >= Room
NoRoom(n) == n > Room

\* sha256_final_ctx.  The 0x80 is stored behind a buffer that is full, and the length of the
\* memset that follows is 64 - 65 in 32 bits: nothing is known of the machine then.
sha256_final_ctx ==
  /\ phase = "update" /\ data = len
  /\ LET padded == Append(buffer, One)
         full   == padded \o Zeros(Block - Len(padded))
         Rest(b) == b \o Zeros(Room - Len(b)) \o Length(len) IN
     IF Len(padded) > Block THEN phase' = "ruined" /\ UNCHANGED <<buffer, hash>>
     ELSE /\ phase' = "hashed"
          /\ buffer' = <<>>
          /\ hash' = hash \o (IF NoRoom(Len(padded)) THEN <<full, Rest(<<>>)>> ELSE <<Rest(padded)>>)
  /\ UNCHANGED <<caller, len, data, loaded>>

\* rsa_verify_signature compares nothing: it returns false, so that lkm_load refuses every
\* module and what comes after the check (the kind of the ELF file) is never reached.
rsa_verify_signature == FALSE
Finish ==
  /\ phase = "hashed" /\ phase' = "done"
  /\ loaded' = IF caller = "module" THEN (IF rsa_verify_signature THEN "loaded" ELSE "refused")
               ELSE loaded
  /\ UNCHANGED <<caller, len, data, buffer, hash>>

Ended == phase \in {"done", "ruined"} /\ UNCHANGED digestVars

Next ==
  \/ Ended
  \/ \E n \in 0 .. MaxLen : sha256_hash(n)
  \/ \E n \in 0 .. MaxLen, magic \in BOOLEAN : lkm_load(n, magic)
  \/ sha256_update_ctx \/ sha256_final_ctx \/ Finish

Spec == Init /\ [][Next]_digestVars

----------------------------------------------------------------------------
TypeOK ==
  /\ caller \in {"none", "call", "module"}
  /\ phase \in {"idle", "update", "ruined", "hashed", "done"}
  /\ len \in 0 .. MaxLen /\ data \in 0 .. len /\ Len(buffer) <= Block
  /\ loaded \in {"no", "refused", "loaded"}

\* What the standard compresses: the message, a one, the fewest zeros that fill the last block
\* with the length, and the length.
Padded(n) ==
  LET zeros == CHOOSE z \in 0 .. Block - 1 : (n + 1 + z + Block - Room) % Block = 0 IN
  [i \in 1 .. n |-> Byte(i)] \o <<One>> \o Zeros(zeros) \o Length(n)

\* A hash that is computed is of the padded message, whatever its length, and no module is
\* loaded without a signature that was compared (crypto.c:91-162, lkm.c:32-36).
DigestTrue ==
  /\ phase \in {"hashed", "done"} /\ (caller = "call" \/ phase = "hashed") => FlattenSeq(hash) = Padded(len)
  /\ \A i \in DOMAIN hash : Len(hash[i]) = Block
  /\ loaded # "loaded"

\* crypto.c:37: the buffer holds 64 bytes; nothing is stored behind it.
InBuffer == phase # "ruined"
=============================================================================
