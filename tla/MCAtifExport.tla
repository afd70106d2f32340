---------------------------- MODULE MCAtifExport ----------------------------
EXTENDS AtifExport

Base == [downstream |-> "s3", prefixer |-> "ec2-instance-id", static |-> "hermes/",
         bucket |-> "traces", token |-> "secret", region |-> TRUE, keys |-> FALSE,
         creds |-> TRUE, tls |-> TRUE, endpoint |-> ""]

\* One environment per backend, and some that must not start.
MCConfigs ==
  {Base,
   [Base EXCEPT !.downstream = "minio", !.prefixer = "none"],
   [Base EXCEPT !.downstream = "s3-compatible", !.prefixer = "none", !.keys = TRUE,
                !.endpoint = "http-remote"],
   [Base EXCEPT !.downstream = "other"],
   [Base EXCEPT !.creds = FALSE],
   [Base EXCEPT !.region = FALSE], [Base EXCEPT !.tls = FALSE],
   [Base EXCEPT !.token = ""]}
=============================================================================
