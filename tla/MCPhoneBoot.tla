--------------------------- MODULE MCPhoneBoot ---------------------------
(* Values for the constants of PhoneBoot: the overlay cut down to the      *)
(* script, one more file and the link that makes the unit start.           *)
EXTENDS PhoneBoot

CONSTANTS script_sh, sshd_conf, wants

MCFiles == {script_sh, sshd_conf}
MCLinks == {wants}
=============================================================================
