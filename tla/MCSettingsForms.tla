--------------------------- MODULE MCSettingsForms ---------------------------
(* SettingsForms takes numbers only. *)
EXTENDS SettingsForms
=============================================================================
