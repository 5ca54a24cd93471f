------------------------- MODULE MCConfigIsolation -------------------------
(* Instances of ConfigIsolation: the configs of the unit tests, cut down.  *)
EXTENDS ConfigIsolation

CONSTANTS v1, v2

rustfs == <<"rustfs">>
minio  == <<"minio">>
sample == <<"sample">>
minioSample == <<"minio", "sample">>
minioSlash  == <<"minio", "a/b">>
minioScore  == <<"minio", "a_b">>

Ref(name, path) == [to |-> name, path |-> path]
Config(name, sections) == [logical |-> name, sections |-> sections]

(* One remote, with two choices of credentials.                            *)
Good  == Config(rustfs, rustfs :> [key |-> "good"])
Wrong == Config(rustfs, rustfs :> [key |-> "wrong", endpoint |-> "e"])

(* The remote is not in the config.                                        *)
Missing == Config(sample, rustfs :> [key |-> "good"])

(* A remote whose name begins like another's and has a character that is   *)
(* not allowed; it unites both, and a remote of somebody else.             *)
Nested == Config(minioSlash,
  (minio :> [key |-> "good"]) @@
  (minioSlash :> [remote |-> <<Ref(minio, <<"dir">>)>>,
                  upstreams |-> <<Ref(minioSlash, <<>>), Ref(minio, <<>>), Ref(rustfs, <<>>)>>]))

(* Two names that become one.                                              *)
Colliding == Config(minioSlash,
  (minioSlash :> [key |-> "good"]) @@ (minioScore :> [endpoint |-> "e"]))

(* A remote whose name ends like another's.                                *)
Suffixed == Config(sample,
  (minioSample :> [key |-> "good"]) @@ (sample :> [remote |-> <<Ref(minioSample, <<"dir">>)>>]))

Tested == {Good, Wrong, Missing, Nested, Colliding}
Tricky == {Suffixed}

OnePrefix == (v1 :> NoOverride) @@ (v2 :> <<"tenant", "a/b">>)

Underscored == "a/b" :> "a_b"
=============================================================================
