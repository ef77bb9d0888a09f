--------------------------- MODULE MCQemuImageCache ---------------------------
(* Instances of QemuImageCache for TLC.                                    *)
EXTENDS QemuImageCache

AllKinds == [form : {"plain", "compressed", "zip"}, raw : BOOLEAN]
RawDisk == {[form |-> "plain", raw |-> TRUE]}
===============================================================================
