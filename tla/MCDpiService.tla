---- MODULE MCDpiService ----
EXTENDS DpiService
CONSTANTS wan, wan6
MCChoices == {{}, {wan}}
====
