---------------------------- MODULE MCSecretStore ---------------------------
(***************************************************************************)
(* Small instances of SecretStore.  The retention limit is lowered from 4  *)
(* so that a purge happens within a few operations.                        *)
(***************************************************************************)
EXTENDS SecretStore

\* Four operations that change versions, or three of any kind.
MCWorkload == {[kinds |-> {"create", "rotate", "rewrap"}, ops |-> 4],
               [kinds |-> Kinds, ops |-> 3]}
=============================================================================
