--------------------------- MODULE NoiseMessages ---------------------------
(***************************************************************************)
(* c/noiseutil: messages of any size as a sequence of Noise packets.  A    *)
(* packet of a cipher state holds its data under the next nonce, followed  *)
(* by a MAC of MAC_SIZE bytes; only the same bytes under the same nonce    *)
(* are accepted.  What the library does to a packet is abstract: each byte *)
(* carries its packet's nonce, its place and the packet's length.          *)
(***************************************************************************)
EXTENDS Integers, Sequences, Job

CONSTANTS
    MAC_SIZE, NOISE_MAX_PACKET_SIZE,
    Plaintexts          \* messages to encrypt

ASSUME NoiseAssumption ==
    /\ MAC_SIZE \in Nat \ {0} /\ NOISE_MAX_PACKET_SIZE \in Nat /\ MAC_SIZE < NOISE_MAX_PACKET_SIZE
    /\ \A text \in Plaintexts : text \in Seq(Nat)

NOISE_MAX_DATA_SIZE == NOISE_MAX_PACKET_SIZE - MAC_SIZE

(* noise_cipherstate_encrypt *)
cipherstate_encrypt(nonce, data) ==
    [i \in 1 .. Len(data) + MAC_SIZE |->
        [nonce |-> nonce, at |-> i, len |-> Len(data),
         byte |-> IF i <= Len(data) THEN data[i] ELSE data]]

(* noise_cipherstate_decrypt *)
cipherstate_accepts(nonce, packet) ==
    /\ Len(packet) >= MAC_SIZE
    /\ \A i \in DOMAIN packet :
        /\ packet[i].nonce = nonce /\ packet[i].at = i /\ packet[i].len = Len(packet) - MAC_SIZE

(* The length of the packet that starts at an offset. *)
chunk(offset, size, max) == IF offset + max > size THEN size - offset ELSE max

(* Mutant: as many packets as fill completely. *)
num_packets_floor(size, max) == size \div max
(* The iterations of a loop over packets. *)
num_packets(size, max) == (size + max - 1) \div max

(* noise_encrypt_message, into a buffer of some size. *)
noise_encrypt_message(nonce, plaintext, buffer_size) ==
    LET done[n \in 0 .. num_packets(Len(plaintext), NOISE_MAX_DATA_SIZE)] ==
            IF n = 0 THEN [ok |-> TRUE, out |-> << >>]
            ELSE LET d   == done[n - 1]
                     off == (n - 1) * NOISE_MAX_DATA_SIZE
                     len == chunk(off, Len(plaintext), NOISE_MAX_DATA_SIZE)
                 IN  IF ~d.ok \/ Len(d.out) + len + MAC_SIZE > buffer_size
                     THEN [ok |-> FALSE, out |-> d.out]
                     ELSE [ok |-> TRUE,
                           out |-> d.out \o cipherstate_encrypt(nonce + n - 1,
                                                   SubSeq(plaintext, off + 1, off + len))]
    IN  done[num_packets(Len(plaintext), NOISE_MAX_DATA_SIZE)]

(* Mutant: memcpy, which may start with the last byte. *)
memcpy_backwards(buf, to, from, len) ==
    LET gap == from - to
        source(i) == IF gap = 0 THEN i ELSE i + gap * ((len - i) \div gap)
    IN  [i \in DOMAIN buf |-> IF i - to \in 1 .. len THEN buf[from + source(i - to)] ELSE buf[i]]
(* memmove of len bytes within a buffer, both offsets from 0. *)
memmove(buf, to, from, len) ==
    [i \in DOMAIN buf |-> IF i - to \in 1 .. len THEN buf[i - to + from] ELSE buf[i]]

(* noise_decrypt_message_inplace: packets move to the front of the buffer   *)
(* and are decrypted there.                                                 *)
noise_decrypt_message_inplace(nonce, ciphertext) ==
    LET size == Len(ciphertext)
        done[n \in 0 .. num_packets(size, NOISE_MAX_PACKET_SIZE)] ==
            IF n = 0 THEN [ok |-> TRUE, buf |-> ciphertext, size |-> 0]
            ELSE LET d   == done[n - 1]
                     off == (n - 1) * NOISE_MAX_PACKET_SIZE
                     len == chunk(off, size, NOISE_MAX_PACKET_SIZE)
                     b   == memmove(d.buf, d.size, off, len)
                     p   == SubSeq(b, d.size + 1, d.size + len)
                 IN  IF ~d.ok \/ ~cipherstate_accepts(nonce + n - 1, p) THEN [d EXCEPT !.ok = FALSE]
                     ELSE [ok |-> TRUE, size |-> d.size + len - MAC_SIZE,
                           buf |-> [i \in DOMAIN b |-> IF i - d.size \in 1 .. len - MAC_SIZE
                                                       THEN b[i].byte ELSE b[i]]]
        r == done[num_packets(size, NOISE_MAX_PACKET_SIZE)]
    IN  [ok |-> r.ok, out |-> IF r.ok THEN SubSeq(r.buf, 1, r.size) ELSE << >>]

(* A message and a MAC for each of its packets. *)
ciphertext_size(plaintext) ==
    Len(plaintext) + MAC_SIZE * num_packets(Len(plaintext), NOISE_MAX_DATA_SIZE)

(* Encryption succeeds exactly when the buffer has room for the message and *)
(* a MAC for each packet, and that is what it fills.                        *)
FitsExactly(plaintext) ==
    LET n == ciphertext_size(plaintext)
    IN  \A s \in 0 .. n + 1 :
            LET r == noise_encrypt_message(0, plaintext, s)
            IN  (r.ok <=> s >= n) /\ (r.ok => Len(r.out) = n)

(* Packet i of a ciphertext, and the first n of them that f picks, joined.  *)
PacketOf(c, i) ==
    LET off == (i - 1) * NOISE_MAX_PACKET_SIZE
    IN  SubSeq(c, off + 1, off + chunk(off, Len(c), NOISE_MAX_PACKET_SIZE))

Joined(c, n, f) ==
    LET first[m \in 0 .. n] == IF m = 0 THEN << >> ELSE first[m - 1] \o PacketOf(c, f[m])
    IN  first[n]

(* What is encrypted decrypts to itself in the same buffer, but not by a    *)
(* cipher state that has used its nonce.  Up to n packets are refused when  *)
(* one is repeated, exchanged with another or missing before one that is    *)
(* there.  The first k packets alone are accepted, as the data of these k:  *)
(* neither the loop nor a packet tells how many there should be.            *)
DecryptsInPlace(plaintext) ==
    LET c == noise_encrypt_message(0, plaintext, ciphertext_size(plaintext)).out
        n == num_packets(Len(c), NOISE_MAX_PACKET_SIZE)
    IN  /\ noise_decrypt_message_inplace(0, c) = [ok |-> TRUE, out |-> plaintext]
        /\ plaintext # << >> => ~noise_decrypt_message_inplace(1, c).ok
        /\ \A k \in 0 .. n : \A f \in [1 .. k -> 1 .. n] :
              (\E i \in 1 .. k : f[i] # i) => ~noise_decrypt_message_inplace(0, Joined(c, k, f)).ok
        /\ \A k \in 0 .. n - 1 :
              noise_decrypt_message_inplace(0, SubSeq(c, 1, k * NOISE_MAX_PACKET_SIZE))
                = [ok |-> TRUE, out |-> SubSeq(plaintext, 1, k * NOISE_MAX_DATA_SIZE)]

(* The messages to check. *)
NoiseJobs == [what : {"noise"}, text : Plaintexts]

(* noise.c: a message fills the packets that were computed for it, and is   *)
(* decrypted over its own ciphertext; what is accepted instead of it is the *)
(* beginning of it, cut between two packets.                                *)
NoiseDelivers == job \in NoiseJobs => FitsExactly(job.text) /\ DecryptsInPlace(job.text)
=============================================================================
