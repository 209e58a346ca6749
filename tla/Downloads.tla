----------------------------- MODULE Downloads -----------------------------
(***************************************************************************)
(* What the file store promises to a player who downloads a personalized   *)
(* file: the file that is handed out is one that is published, complete,   *)
(* under the player's key at one instant of the download.                  *)
(*                                                                         *)
(* FileStore, whose downloads take no lock while files are published,      *)
(* replaced and removed, implements this specification.                    *)
(***************************************************************************)
CONSTANTS Key, Gen, NoGen, Request

VARIABLES
  published,  \* the generation that is published under a key
  handle      \* what a download got: a key and the generation of an open file

downloadVars == <<published, handle>>

NoHandle == <<>>

Publish(k, g) ==
  /\ published[k] = NoGen
  /\ published' = [published EXCEPT ![k] = g]
  /\ UNCHANGED handle

Withdraw(k) ==
  /\ published' = [published EXCEPT ![k] = NoGen]
  /\ UNCHANGED handle

Take(r, k) ==
  /\ handle[r] = NoHandle
  /\ published[k] # NoGen
  /\ handle' = [handle EXCEPT ![r] = <<k, published[k]>>]
  /\ UNCHANGED published

Drop(r) ==
  /\ handle' = [handle EXCEPT ![r] = NoHandle]
  /\ UNCHANGED published

DownloadInit ==
  /\ published = [k \in Key |-> NoGen]
  /\ handle = [r \in Request |-> NoHandle]

DownloadNext ==
  \/ \E k \in Key : Withdraw(k) \/ \E g \in Gen : Publish(k, g)
  \/ \E r \in Request : Drop(r) \/ \E k \in Key : Take(r, k)

DownloadSpec == DownloadInit /\ [][DownloadNext]_downloadVars

=============================================================================
