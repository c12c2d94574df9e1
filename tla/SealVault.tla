----------------------------- MODULE SealVault -----------------------------
(* A quiet host's Seal implements Vault. *)
EXTENDS Seal

V == INSTANCE Vault WITH plain <- Plaintext, cipher <- Ciphertext

\* Step by step, crashes included, seal_folder and unseal_folder only ever copy
\* records before they remove them: to an observer of the two copies they are
\* Vault's Protect, Shed, Restore and Release, and the host's writes and
\* erasures are Remember and Erase.
ImplementsVault == V!Spec
=============================================================================
