----------------------------- MODULE MCPictures -----------------------------
(* PictureRecovery on documents with a page that is read again.             *)
EXTENDS PictureRecovery

Scenes == INSTANCE PictureSamples
ShiftedRequests == Scenes!Shifted
=============================================================================
