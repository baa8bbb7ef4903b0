----------------------------- MODULE MCAndroidApp -----------------------------
(* AndroidApp with one page opened from a file beside those it serves.     *)
EXTENDS AndroidApp

MCFilePages == {MaxStarts + 1}
MCPages == Starts \cup MCFilePages
=============================================================================
