----------------------------- MODULE MCFfiExport -----------------------------
(* Two threads in native code at once; the two exceptions bodies raise. *)
EXTENDS FfiExport

CONSTANTS t1, t2, NullPointerException, JavaException

MCThreads == {t1, t2}
MCRaised == {NullPointerException, JavaException}

==============================================================================
