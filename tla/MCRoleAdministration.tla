------------------------ MODULE MCRoleAdministration ------------------------
EXTENDS RoleAdministration, TLC

MCRoles == <<"ADMIN", "RECRUITER">>
MCPermissions == <<"job:delete", "role:permission:manage">>
MCDefaults ==
  [ADMIN |-> <<"job:delete", "role:permission:manage">>,
   RECRUITER |-> <<"role:permission:manage">>]
MCPayloads == {{}, {"role:permission:manage"}}
=============================================================================
