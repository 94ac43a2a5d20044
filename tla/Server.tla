-------------------------------- MODULE Server --------------------------------
(***************************************************************************)
(* The server: components that share no state with each other, each with   *)
(* its own variables and steps.                                            *)
(***************************************************************************)
EXTENDS Partitions, Library, StoredPlaylists, StateFile, Connection, Stickers, Artwork, Mounts

Components ==
  /\ PartitionsSpec /\ LibrarySpec /\ StoredSpec /\ StateFileSpec
  /\ ConnectionSpec /\ StickersSpec /\ ArtSpec /\ MountsSpec

-----------------------------------------------------------------------------
\* Every component's variables keep their types.
ServerTypeOK ==
  /\ PartitionsTypeOK /\ LibraryTypeOK /\ StoredTypeOK /\ StateFileTypeOK
  /\ ConnectionTypeOK /\ StickersTypeOK /\ ArtTypeOK /\ MountsTypeOK
=============================================================================
