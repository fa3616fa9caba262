------------------------------ MODULE MCApkScan ------------------------------
(* ApkScan for TLC: one entry of each kind the size policy tells apart. *)
EXTENDS ApkScan

Declares(compressed, uncompressed, encrypted, supported) ==
  [compressed_bytes |-> compressed, uncompressed_bytes |-> uncompressed,
   encrypted |-> encrypted, supported |-> supported]

SomePayloads ==
  {Declares(1, 1, FALSE, TRUE), Declares(2, 2, FALSE, TRUE), Declares(2, 3, FALSE, TRUE),
   Declares(1, 1, TRUE, TRUE)}
=============================================================================
