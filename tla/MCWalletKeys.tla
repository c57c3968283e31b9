---------------------------- MODULE MCWalletKeys ----------------------------
(* Small instances of WalletKeys: passphrases and KDFs are interchangeable. *)
EXTENDS WalletKeys, TLC

Symmetry == Permutations(Passphrase) \cup Permutations(Kdf)
=============================================================================
