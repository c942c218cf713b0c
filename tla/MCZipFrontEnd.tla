---------------------------- MODULE MCZipFrontEnd ----------------------------
(* ZipFrontEnd over MCPathArgs' command lines and tree, with and without   *)
(* -jar and -d.                                                            *)
EXTENDS ZipFrontEnd, MCPathArgs

====
