---------------------------- MODULE MCDataSource ----------------------------
(* The instance of DataSource for TLC: two calls, two servers, two names.  *)
EXTENDS DataSource
=============================================================================
