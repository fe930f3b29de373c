------------------------------- MODULE MCSmtp -------------------------------
(* The SMTP session on small instances. *)
EXTENDS SmtpSession

\* Mail transactions: completed, abandoned, repeated, before and after TLS.
MailKinds == {"helo", "mail", "rcpt", "rset", "starttls", "bdat0", "bdat0last"}

MailOpening ==
    <<{"helo", "starttls"}, {"helo", "mail", "starttls"}, {"helo", "mail", "rcpt", "starttls"}>>

\* Messages of every kind, behind the shortest way to one.
MessageOpening == <<{"helo"}, {"mail"}, {"rcpt"}>>

\* The shortest way to a chunk that ends with BDAT 0 LAST.
ChunkKinds == {"helo", "mail", "rcpt", "bdat0", "bdat0last"}
=============================================================================
