-------------------------- MODULE MCConnectionPool --------------------------
(* Small instances of ConnectionPool. *)
EXTENDS ConnectionPool, TLC

(* read is where every other handler begins; decide and write take
   connections as status does. *)
WriteOps == DOMAIN Script \ {"read", "decide", "write"}

(* Two numbers are left of the first month; the second begins anew. *)
AlmostAll == {Wide - 2}
=============================================================================
