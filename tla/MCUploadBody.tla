---------------------------- MODULE MCUploadBody ----------------------------
(* Instances of UploadBody.tla for TLC.                                    *)
EXTENDS UploadBody

\* One group of three bytes, with one byte and full, and a second group begun.
MCLimits == {1, 3, 4}
=============================================================================
