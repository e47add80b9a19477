----------------------------- MODULE MCUploader -----------------------------
(* A torrent of two pieces, the last of which is short; a guest has nothing    *)
(* when it connects, or the first piece, and may do everything.              *)
EXTENDS Uploader

NothingOrFirst == { {}, {0} }
=============================================================================
