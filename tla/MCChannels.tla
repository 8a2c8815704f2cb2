----------------------------- MODULE MCChannels -----------------------------
(* Bounds: digests of 5 bytes, numbers and nonces of 2 (20 and 8 in the code), so
   that a field element of two draws leaves one spare byte and a number after it
   starts a new digest; two messages of different sizes. *)
EXTENDS Channels

CONSTANTS x, y

MCByte == {x, y}

MCData == {<<x>>, <<x, y, y>>}

\* Some draws are rejected, never two in a row.
MCRejected(bytes) == bytes[1].place % 5 = 2
=============================================================================
