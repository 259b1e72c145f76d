---------------------------- MODULE MCAttachments ----------------------------
(* Instances of Attachments: two rows; a photo, a clean and an infected     *)
(* PDF, an image that cannot be re-encoded, a file of no accepted type and  *)
(* the generated form.                                                      *)
EXTENDS Attachments

MCMediaOf ==
  [photo |-> "image", memo |-> "pdf", virus |-> "pdf", broken |-> "image",
   page |-> "other", form |-> "pdf"]

(* Overlapping scans of two files and a download; a sweep that meets a      *)
(* hopeless file first; the payment among scans; crashes.                   *)
MCScenarios ==
  {[files |-> <<{<<"photo", "core">>}, {<<"virus", "core">>, <<"page", "core">>}>>,
    who |-> {"sweep", "outage", "download"}],
   [files |-> <<{<<"photo", "core">>, <<"broken", "core">>}, {<<"photo", "core">>}>>,
    who |-> {"sweep", "outage", "crash"}],
   [files |-> <<{<<"memo", "evidence">>}, {<<"photo", "evidence">>, <<"form", "generated">>}>>,
    who |-> {"sweep", "payment", "delete"}],
   [files |-> <<{<<"memo", "evidence">>, <<"memo", "core">>}, {<<"form", "generated">>}>>,
    who |-> {"payment", "time", "hold"}]}
=============================================================================
