--------------------------- MODULE MCRenderRequests ---------------------------
(* A small instance of RenderRequests for TLC. *)
EXTENDS RenderRequests

MCOptionText(key) ==
    CASE key = "displayHeaderFooter" -> BOOLEAN
      [] key = "footerTemplate" -> {"", "<p/>"}
      [] key = "format" -> {Undefined, "a3"}
      [] OTHER -> {}

\* An unknown key, an option of the wrong type, a margin of two sides or of none.
MCPasted ==
    {[timeout |-> 0],
     [scale |-> Malformed, path |-> "letter.pdf"],
     [scale |-> 1, landscape |-> TRUE],
     [margin |-> Malformed],
     [margin |-> [top |-> "1cm", left |-> "1cm"]]}

Required == [dato |-> "2024", saksbehandlerNavn |-> "Ola"]
Exemptions ==
    {Empty, [erUnntattOffentlighet |-> TRUE],
     [erUnntattOffentlighet |-> TRUE, unntattOffentlighetHjemmel |-> Blank],
     [erUnntattOffentlighet |-> TRUE, unntattOffentlighetHjemmel |-> Law]}

MCDefaultChoice == {[language |-> "bm", signatureVariant |-> "automatiskBehandlet"]}
MCDirektoratChoice ==
    {[language |-> "nn", signatureVariant |-> "usignert"],
     [language |-> "bm", signatureVariant |-> "elektroniskGodkjent", signatureLines |-> TRUE]}

MCDefaultFields ==
    {[virksomhet |-> AddressLine, saksnummer |-> "2024/1"] ++ Required ++ exemption : exemption \in Exemptions}
        \cup {[virksomhet |-> AddressLine, saksnummer |-> "", tidligereReferanse |-> "2023/9"] ++ Required}
MCDirektoratFields ==
    {[saksnummer |-> "2024/2"] ++ exemption : exemption \in Exemptions}
        \cup {Empty, [saksnummer |-> "", mottaker |-> AddressLine]}

MCPdfConfig ==
    {[as_html |-> TRUE],
     [css |-> <<"caller">>, merge_css |-> TRUE, page_media_type |-> "print"],
     [css |-> <<"caller">>, author |-> "Config"],
     [merge_css |-> TRUE],
     [pdf_options |-> [footerTemplate |-> "<p/>", margin |-> [top |-> "20mm"]]],
     [pdf_options |-> [landscape |-> TRUE, scale |-> Malformed]]}
MCMetadata == {[document_title |-> "Letter", author |-> "Ola"]}

\* A reference that is a number, an address with a line missing, arguments missing
\* or not allowed, an option that Puppeteer knows and the schema does not.
DirektoratRequest(fields) ==
    [dynamic |-> [template |-> "direktorat", direktoratTemplateArgs |->
        [language |-> "nn", signatureVariant |-> "usignert", fields |-> fields]]]
MCOtherRequests ==
    {DirektoratRequest([saksnummer |-> Zero]),
     DirektoratRequest([mottaker |-> {"navn"}]),
     DirektoratRequest([erUnntattOffentlighet |-> TRUE]),
     [dynamic |-> [template |-> "direktorat"]],
     [dynamic |-> [template |-> "default"], as_html |-> TRUE],
     [dynamic |-> [template |-> "blank"], pdf_options |-> [path |-> "letter.pdf"]],
     [dynamic |-> [template |-> "custom"], css |-> <<"caller">>, merge_css |-> TRUE],
     [dynamic |-> [template |-> "blank"], page_media_type |-> "tv"]}
=============================================================================
