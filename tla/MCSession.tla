----------------------------- MODULE MCSession -----------------------------
(***************************************************************************)
(* Session for TLC: one device or two, no stress test or one of two        *)
(* workers, with a log or without, on either backend; errors are injected  *)
(* on the Linux backend, where nothing throws.                             *)
(***************************************************************************)
EXTENDS Session

MCConfigs ==
  {c \in [devices : {1, 2}, threads : {0, 2}, logging : BOOLEAN, errors : BOOLEAN,
          windows : BOOLEAN] : c.errors = ~c.windows}
=============================================================================
