----------------------------- MODULE MCApplication -----------------------------
EXTENDS Application

(* The application under test and one of its neighbours. *)
MCBundle == {"aut", "other"}
===============================================================================
