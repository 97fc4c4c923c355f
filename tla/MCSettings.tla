------------------------------ MODULE MCSettings -------------------------------
(***************************************************************************)
(* The settings with two logins, one with a colon in its password.          *)
(***************************************************************************)
EXTENDS Settings

MCSystems == {"unix", "windows"}
MCBuilt == {"Layer3", "Speex", "Vorbis"}
MCLogins == {<< <<97>>, <<58, 255>> >>, << <<98, 99>>, <<>> >>}
MCNames == {<<32, 65>>}
MCTexts == {"x", "10.0.0.2"}
=============================================================================
