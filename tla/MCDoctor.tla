------------------------------- MODULE MCDoctor -------------------------------
(***************************************************************************)
(* Two required commands and an optional one, two options, two versions of *)
(* tar, and paths that are absent or a directory with fewer or more        *)
(* permissions.                                                            *)
(***************************************************************************)
EXTENDS Doctor

MCRequired == <<"cp", "tar">>
MCOptional == <<"rsync">>

Roots == {{}, {"exists", "directory", "readable"}}
Workdirs == {{}, {"exists", "directory", "readable"}, {"exists", "directory", "readable", "writable"}}
Tars == [version : {"1.35", "1.36"}, options : {{"--create"}, {"--create", "--gzip"}}]
MCServers == [
  commands : {{"cp", "tar", "rsync"}, {"cp", "tar"}, {"cp"}},
  tar : Tars, paths : [root : Roots, workdir : Workdirs]]

==============================================================================
