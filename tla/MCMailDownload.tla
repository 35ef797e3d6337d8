--------------------------- MODULE MCMailDownload ---------------------------
(* The instance of MailDownload: one of two mails has the label.           *)
EXTENDS MailDownload
OneLabelled == [m \in Mails |-> IF m = 1 THEN Labels ELSE {}]
=============================================================================
